---- MODULE Spec2Model ----
(***************************************************************************)
(* Real-time chat core of the health application back end: the Socket.IO  *)
(* event handlers (utils/socketHandlers.js), the chat controller          *)
(* (controllers/chatController.js) and the Conversation and Message      *)
(* models.  Every await of the JavaScript code is a point where other    *)
(* handlers run, so a handler is a sequence of steps over its own loaded  *)
(* copies of the documents; a save writes only what the copy modified.    *)
(***************************************************************************)
EXTENDS Integers, Sequences, FiniteSets, TLC

VARIABLES
    conversations,  \* Conversation collection: sequence of documents, _id = index
    messages,       \* Message collection: sequence of documents, _id = index
    sockets,        \* every socket ever connected, id = index
    onlineUsers,    \* the onlineUsers Map: user -> socket id, 0 = no entry
    ops,            \* handler invocations (socket events, HTTP requests), id = index
    now,            \* the clock read by new Date()
    audit           \* observer, one entry per conversation: what was sent and
                    \* what was applied to each counter since a user's last reset

vars == <<conversations, messages, sockets, onlineUsers, ops, now, audit>>

----------------------------------------------------------------------------
(* Bounds of the model *)

MaxCreateOps == 3
MaxChatOps == 2
MaxSockets == 2
MaxConcOps == 3
MaxInFlight == 2
MaxSeqOps == 4
MaxMarkCalls == 4
MaxTime == 2
MaxFailOps == 2
MaxTypingOps == 2
MaxPageOps == 2
MaxPageMsgs == 3
MaxLimit == 2
MaxInactiveOps == 2
MaxAuthOps == 2
MaxErrOps == 2
MaxReadOps == 2
MaxUnreadOps == 2
MaxContentOps == 1
MaxContentLen == 2
MaxLeakOps == 2
MaxFocOps == 3
MaxRoleOps == 2
MaxPointerOps == 3
MaxLateOps == 3

----------------------------------------------------------------------------
(* Identities (the User collection is read-only for the chat core) *)

Users == {"P", "D", "A"}

\* the User collection: the identities that connect, and a second patient and
\* a second doctor known to the chat core only as participantId values
Accounts == Users \cup {"Q", "E"}

Role == [P |-> "patient", D |-> "doctor", A |-> "admin", Q |-> "patient",
         E |-> "doctor"]

NoUser == "none"

\* participantId values of a request body: a user, a missing field, an unknown id
GhostUser == "ghost"

----------------------------------------------------------------------------
(* Documents *)

SeqToSet(s) == {s[i] : i \in 1..Len(s)}

Min(S) == CHOOSE x \in S : \A y \in S : x <= y

\* Map.set(key, value)
MapSet(m, k, v) == [x \in (DOMAIN m) \cup {k} |-> IF x = k THEN v ELSE m[x]]

\* Map.get(key) || 0
MapGetOr0(m, k) == IF k \in DOMAIN m THEN m[k] ELSE 0

EmptyMap == [x \in {} |-> 0]

\* a Conversation document as created by findOrCreate
NewConversation(userId1, userId2, at) ==
    [ participants     |-> <<userId1, userId2>>,
      lastMessage      |-> 0,
      lastMessageAt    |-> at,
      unreadCount      |-> MapSet(MapSet(EmptyMap, userId1, 0), userId2, 0),
      isActive         |-> TRUE,
      conversationType |-> "direct" ]

\* the observer's entry for a new conversation
NewAudit(userId1, userId2) ==
    [ sent    |-> [u \in {userId1, userId2} |-> 0],
      applied |-> [u \in {userId1, userId2} |-> 0] ]

\* the result of a query that found nothing
NullDoc ==
    [ found |-> FALSE, id |-> 0, participants |-> <<>>, unreadCount |-> EmptyMap ]

\* a loaded copy of conversation c (null when the id does not resolve)
LoadConversation(c) ==
    IF c \in 1..Len(conversations)
    THEN [ found        |-> TRUE,
           id           |-> c,
           participants |-> conversations[c].participants,
           unreadCount  |-> conversations[c].unreadCount ]
    ELSE NullDoc

\* mutant: the membership test answers yes for everyone
IsParticipantAlways(doc, userId) == TRUE

\* conversation.participants.some(p => p.toString() === userId)
IsParticipant(doc, userId) == userId \in SeqToSet(doc.participants)

----------------------------------------------------------------------------
(* Handler invocations *)

NoOp ==
    [ kind |-> "none", sock |-> 0, user |-> NoUser, peer |-> NoUser, conv |-> 0,
      msg |-> 0, pc |-> "done", doc |-> NullDoc, mdocs |-> <<>>, todo |-> <<>>,
      target |-> 0, status |-> 0, result |-> 0, content |-> <<>> ]

NewOp(kind, sock, user) ==
    [NoOp EXCEPT !.kind = kind, !.sock = sock, !.user = user]

OpIds == 1..Len(ops)

InFlight(o) == ops[o].pc # "done"

----------------------------------------------------------------------------
(* Conversation.findBetweenUsers / findOrCreate and createConversation *)

\* the documents matched by { participants: { $all: [userId1, userId2] },
\* conversationType: 'direct' }
MatchBetweenUsers(userId1, userId2) ==
    { c \in 1..Len(conversations) :
        /\ {userId1, userId2} \subseteq SeqToSet(conversations[c].participants)
        /\ conversations[c].conversationType = "direct" }

\* mutant: the query matches the participants array as given, in order
findBetweenUsersOrdered(userId1, userId2) ==
    LET S == { c \in 1..Len(conversations) :
                 /\ conversations[c].participants = <<userId1, userId2>>
                 /\ conversations[c].conversationType = "direct" }
    IN IF S = {} THEN 0 ELSE Min(S)

\* findOne: the first matching document in insertion order, or null (0)
findBetweenUsers(userId1, userId2) ==
    IF MatchBetweenUsers(userId1, userId2) = {} THEN 0
    ELSE Min(MatchBetweenUsers(userId1, userId2))

\* mutant: the role pairing is not examined
CreateValidationAnyRoles(userId, participantId) ==
    IF participantId = NoUser THEN 400
    ELSE IF participantId \notin Accounts THEN 404
    ELSE 0

\* the checks of createConversation that precede findOrCreate: 0 = passed
CreateValidation(userId, participantId) ==
    IF participantId = NoUser THEN 400
    ELSE IF participantId \notin Accounts THEN 404
    ELSE IF Role[userId] = "patient" /\ Role[participantId] = "patient" THEN 403
    ELSE IF Role[userId] = "doctor" /\ Role[participantId] = "doctor" THEN 403
    ELSE 0

\* POST /api/chat/conversations up to the findBetweenUsers query of findOrCreate
CreateConversationStart(userId, participantId) ==
    /\ LET v == CreateValidation(userId, participantId)
           o == [NewOp("createConversation", 0, userId) EXCEPT !.peer = participantId]
       IN ops' = Append(ops,
                    IF v # 0
                    THEN [o EXCEPT !.status = v]
                    ELSE [o EXCEPT !.pc = "found",
                                   !.result = findBetweenUsers(userId, participantId)])
    /\ UNCHANGED <<conversations, messages, sockets, onlineUsers, now, audit>>

\* findOrCreate after the query: create when nothing was found, then respond 201
CreateConversationFinish(o) ==
    /\ ops[o].kind = "createConversation"
    /\ ops[o].pc = "found"
    /\ IF ops[o].result = 0
       THEN /\ conversations' =
                 Append(conversations, NewConversation(ops[o].user, ops[o].peer, now))
            /\ ops' = [ops EXCEPT ![o].pc = "done", ![o].status = 201,
                                  ![o].result = Len(conversations) + 1,
                                  ![o].target = 1]
            /\ audit' = Append(audit, NewAudit(ops[o].user, ops[o].peer))
       ELSE /\ ops' = [ops EXCEPT ![o].pc = "done", ![o].status = 201]
            /\ UNCHANGED <<conversations, audit>>
    /\ UNCHANGED <<messages, sockets, onlineUsers, now>>

----------------------------------------------------------------------------
(* Sockets, rooms and emitted events *)

NewSocket(userId) ==
    [ user |-> userId, connected |-> TRUE, rooms |-> {}, inbox |-> {},
      ajpc |-> "found", ajconvs |-> {} ]

SocketIds == 1..Len(sockets)

Event(type, conv, msg, user, op, text) ==
    [ type |-> type, conv |-> conv, msg |-> msg, user |-> user, op |-> op,
      text |-> text ]

\* mutant: the packet goes to every connected socket, whatever the target
DeliverToAll(sk, targets, ev) ==
    [ s \in 1..Len(sk) |->
        IF sk[s].connected
        THEN [sk[s] EXCEPT !.inbox = @ \cup {ev}]
        ELSE sk[s] ]

\* a packet reaches the sockets of `targets` that are still connected
Deliver(sk, targets, ev) ==
    [ s \in 1..Len(sk) |->
        IF s \in targets /\ sk[s].connected
        THEN [sk[s] EXCEPT !.inbox = @ \cup {ev}]
        ELSE sk[s] ]

\* the sockets in room conversation:<c>
InRoom(sk, c) == { s \in 1..Len(sk) : c \in sk[s].rooms }

\* socket.join(`conversation:${c}`): the adapter adds the socket id to the room
JoinRoom(sk, s, c) == [sk EXCEPT ![s].rooms = @ \cup {c}]

\* isUserOnline(userId)
isUserOnline(userId) == onlineUsers[userId] # 0

\* mutant: the query forgets isActive: true
AllConversationsOf(userId) ==
    { c \in 1..Len(conversations) : IsParticipant(conversations[c], userId) }

\* Conversation.find({ participants: userId, isActive: true })
ActiveConversationsOf(userId) ==
    { c \in 1..Len(conversations) :
        /\ IsParticipant(conversations[c], userId)
        /\ conversations[c].isActive }

\* io.on('connection'): presence entry, user_online to the others, and the call
\* of joinUserConversations up to the answer of its query
Connect(userId) ==
    /\ sockets' = Append(Deliver(sockets, SocketIds,
                                 Event("user_online", 0, 0, userId, 0, "")),
                         [NewSocket(userId) EXCEPT
                             !.ajconvs = ActiveConversationsOf(userId)])
    /\ onlineUsers' = [onlineUsers EXCEPT ![userId] = Len(sockets) + 1]
    /\ UNCHANGED <<conversations, messages, ops, now, audit>>

\* joinUserConversations: conversations.forEach(socket.join)
AutoJoinJoin(s) ==
    /\ sockets[s].ajpc = "found"
    /\ sockets' = [sockets EXCEPT ![s].ajpc = "done",
                                  ![s].rooms = @ \cup sockets[s].ajconvs]
    /\ UNCHANGED <<conversations, messages, onlineUsers, ops, now, audit>>

\* mutant: the 'disconnect' handler deletes the entry only when it names
\* another socket than the closing one
DisconnectUnlessOwn(s) ==
    /\ sockets[s].connected
    /\ sockets' = Deliver([sockets EXCEPT ![s].connected = FALSE, ![s].rooms = {}],
                          SocketIds \ {s},
                          Event("user_offline", 0, 0, sockets[s].user, 0, ""))
    /\ onlineUsers' = IF onlineUsers[sockets[s].user] = s THEN onlineUsers
                      ELSE [onlineUsers EXCEPT ![sockets[s].user] = 0]
    /\ UNCHANGED <<conversations, messages, ops, now, audit>>

\* mutant: the 'disconnect' handler forgets onlineUsers.delete(userId)
DisconnectKeepsPresence(s) ==
    /\ sockets[s].connected
    /\ sockets' = Deliver([sockets EXCEPT ![s].connected = FALSE, ![s].rooms = {}],
                          SocketIds \ {s},
                          Event("user_offline", 0, 0, sockets[s].user, 0, ""))
    /\ UNCHANGED <<conversations, messages, onlineUsers, ops, now, audit>>

\* the socket closes (Socket.IO empties its rooms), then the 'disconnect'
\* handler: onlineUsers.delete(userId) and user_offline to the others
Disconnect(s) ==
    /\ sockets[s].connected
    /\ sockets' = Deliver([sockets EXCEPT ![s].connected = FALSE, ![s].rooms = {}],
                          SocketIds \ {s},
                          Event("user_offline", 0, 0, sockets[s].user, 0, ""))
    /\ onlineUsers' = [onlineUsers EXCEPT ![sockets[s].user] = 0]
    /\ UNCHANGED <<conversations, messages, ops, now, audit>>

----------------------------------------------------------------------------
(* join_conversation *)

\* the event arrives and Conversation.findById(conversationId) is answered
JoinConversationStart(s, c) ==
    /\ sockets[s].connected
    /\ ops' = Append(ops, [NewOp("join_conversation", s, sockets[s].user) EXCEPT
                              !.conv = c, !.pc = "loaded",
                              !.doc = LoadConversation(c)])
    /\ UNCHANGED <<conversations, messages, sockets, onlineUsers, now, audit>>

\* mutant: the handler joins the room of any conversation that exists
JoinConversationFinishUnchecked(o) ==
    /\ ops[o].kind = "join_conversation"
    /\ ops[o].pc = "loaded"
    /\ sockets' =
         IF ~ops[o].doc.found
         THEN Deliver(sockets, {ops[o].sock},
                      Event("error", 0, 0, NoUser, o, "Conversation not found"))
         ELSE JoinRoom(sockets, ops[o].sock, ops[o].conv)
    /\ ops' = [ops EXCEPT ![o].pc = "done"]
    /\ UNCHANGED <<conversations, messages, onlineUsers, now, audit>>

\* the rest of the handler: not found, not authorized, or socket.join
JoinConversationFinish(o) ==
    /\ ops[o].kind = "join_conversation"
    /\ ops[o].pc = "loaded"
    /\ sockets' =
         IF ~ops[o].doc.found
         THEN Deliver(sockets, {ops[o].sock},
                      Event("error", 0, 0, NoUser, o, "Conversation not found"))
         ELSE IF ~IsParticipant(ops[o].doc, ops[o].user)
         THEN Deliver(sockets, {ops[o].sock},
                      Event("error", 0, 0, NoUser, o, "Not authorized"))
         ELSE JoinRoom(sockets, ops[o].sock, ops[o].conv)
    /\ ops' = [ops EXCEPT ![o].pc = "done"]
    /\ UNCHANGED <<conversations, messages, onlineUsers, now, audit>>

----------------------------------------------------------------------------
(* Message documents and their methods *)

NewMessage(c, senderId) ==
    [ conversation |-> c, sender |-> senderId, readBy |-> <<>>,
      deliveredTo |-> <<>>, createdAt |-> now, isDeleted |-> FALSE ]

\* a loaded copy of message m
LoadMessage(m) ==
    [ id |-> m, conversation |-> messages[m].conversation,
      sender |-> messages[m].sender, readBy |-> messages[m].readBy,
      deliveredTo |-> messages[m].deliveredTo ]

\* MessageSchema.methods.isReadBy
isReadBy(doc, userId) == \E i \in 1..Len(doc.readBy) : doc.readBy[i].user = userId

\* MessageSchema.methods.isDeliveredTo
isDeliveredTo(doc, userId) ==
    \E i \in 1..Len(doc.deliveredTo) : doc.deliveredTo[i].user = userId

\* mutant: markAsRead pushes without asking isReadBy
markAsReadAlways(doc, userId) ==
    Append(doc.readBy, [user |-> userId, at |-> now])

\* MessageSchema.methods.markAsRead on a document: the readBy array after the call
markAsRead(doc, userId) ==
    IF ~isReadBy(doc, userId)
    THEN Append(doc.readBy, [user |-> userId, at |-> now])
    ELSE doc.readBy

\* MessageSchema.methods.markAsDelivered on a document: deliveredTo after the call
markAsDelivered(doc, userId) ==
    IF ~isDeliveredTo(doc, userId)
    THEN Append(doc.deliveredTo, [user |-> userId, at |-> now])
    ELSE doc.deliveredTo

\* MessageSchema.post('save'): Conversation.findByIdAndUpdate(doc.conversation,
\* { lastMessage: doc._id, lastMessageAt: doc.createdAt })
PostSave(convs, m, c, createdAt) ==
    IF c \in 1..Len(convs)
    THEN [convs EXCEPT ![c].lastMessage = m, ![c].lastMessageAt = createdAt]
    ELSE convs

\* conversation.participants.filter(p => p.toString() !== userId)
RECURSIVE OtherParticipants(_, _)
OtherParticipants(participants, userId) ==
    IF participants = <<>> THEN <<>>
    ELSE IF Head(participants) # userId
         THEN <<Head(participants)>> \o OtherParticipants(Tail(participants), userId)
         ELSE OtherParticipants(Tail(participants), userId)

\* mutant: incrementUnread stores 1 instead of the current count plus 1
incrementUnreadOnce(doc, userId) == MapSet(doc.unreadCount, userId, 1)

\* ConversationSchema.methods.incrementUnread on a loaded copy: its map afterwards
incrementUnread(doc, userId) ==
    MapSet(doc.unreadCount, userId, MapGetOr0(doc.unreadCount, userId) + 1)

\* mutant: resetUnread saves the count as it was loaded
resetUnreadKeeps(doc, userId) ==
    MapSet(doc.unreadCount, userId, MapGetOr0(doc.unreadCount, userId))

\* mutant: resetUnread takes one off the count instead of storing 0
resetUnreadByOne(doc, userId) ==
    MapSet(doc.unreadCount, userId, MapGetOr0(doc.unreadCount, userId) - 1)

\* ConversationSchema.methods.resetUnread on a loaded copy: its map afterwards
resetUnread(doc, userId) == MapSet(doc.unreadCount, userId, 0)

\* this.save() of a copy whose only modified path is unreadCount.<userId>
SaveUnread(convs, c, userId, value) ==
    [convs EXCEPT ![c].unreadCount = MapSet(@, userId, value)]

\* the observer adds n to field f of every user of `users` in conversation c
AuditAdd(a, c, f, users, n) ==
    [a EXCEPT ![c][f] = [u \in DOMAIN @ |-> IF u \in users THEN @[u] + n ELSE @[u]]]

\* the observer restarts both counts of userId in conversation c
AuditReset(a, c, userId) ==
    [a EXCEPT ![c].sent = [u \in DOMAIN @ |-> IF u = userId THEN 0 ELSE @[u]],
              ![c].applied = [u \in DOMAIN @ |-> IF u = userId THEN 0 ELSE @[u]]]

----------------------------------------------------------------------------
(* send_message *)

\* the event arrives and Conversation.findById(conversationId) is answered
SendMessageWith(s, c, content) ==
    /\ sockets[s].connected
    /\ ops' = Append(ops, [NewOp("send_message", s, sockets[s].user) EXCEPT
                              !.conv = c, !.pc = "loaded",
                              !.doc = LoadConversation(c),
                              !.content = content])
    /\ UNCHANGED <<conversations, messages, sockets, onlineUsers, now, audit>>

\* a send_message whose content is a one-letter text
SendMessageStart(s, c) == SendMessageWith(s, c, <<"a">>)

\* the characters of a message content: a blank and a letter
Chars == {" ", "a"}

\* the contents a client may send: every text of up to MaxContentLen characters
Contents == UNION { [1..n -> Chars] : n \in 0..MaxContentLen }

\* the schema's maxlength of content
MaxLength == 5000

RECURSIVE TrimStart(_)
TrimStart(content) ==
    IF content # <<>> /\ Head(content) = " " THEN TrimStart(Tail(content))
    ELSE content

RECURSIVE TrimEnd(_)
TrimEnd(content) ==
    IF content # <<>> /\ content[Len(content)] = " "
    THEN TrimEnd(SubSeq(content, 1, Len(content) - 1))
    ELSE content

\* mutant: the content is validated as sent
TrimNothing(content) == content

\* the schema's trim setter: String.prototype.trim
Trim(content) == TrimEnd(TrimStart(content))

\* the validators of MessageSchema.content on the trimmed value: required (a
\* string of length 0 fails) and maxlength
ValidContent(content) ==
    LET v == Trim(content) IN Len(v) > 0 /\ Len(v) <= MaxLength

\* mutant: Message.create runs for any caller once the conversation is found
SendMessageCheckAnyone(o) ==
    /\ ops[o].kind = "send_message"
    /\ ops[o].pc = "loaded"
    /\ IF ~ops[o].doc.found
       THEN /\ sockets' = Deliver(sockets, {ops[o].sock},
                             Event("error", 0, 0, NoUser, o, "Conversation not found"))
            /\ ops' = [ops EXCEPT ![o].pc = "done"]
            /\ UNCHANGED <<messages, audit>>
       ELSE IF ~ValidContent(ops[o].content)
       THEN /\ sockets' = Deliver(sockets, {ops[o].sock},
                             Event("error", 0, 0, NoUser, o, "Failed to send message"))
            /\ ops' = [ops EXCEPT ![o].pc = "done", ![o].status = 500,
                                  ![o].result = 1]
            /\ UNCHANGED <<messages, audit>>
       ELSE /\ messages' = Append(messages, NewMessage(ops[o].conv, ops[o].user))
            /\ ops' = [ops EXCEPT
                  ![o].pc = "created",
                  ![o].msg = Len(messages) + 1,
                  ![o].mdocs = << [ id |-> Len(messages) + 1,
                                    conversation |-> ops[o].conv,
                                    sender |-> ops[o].user,
                                    readBy |-> <<>>, deliveredTo |-> <<>> ] >>,
                  ![o].todo = OtherParticipants(ops[o].doc.participants, ops[o].user)]
            /\ audit' = AuditAdd(audit, ops[o].conv, "sent",
                                 SeqToSet(ops[o].doc.participants) \ {ops[o].user}, 1)
            /\ UNCHANGED sockets
    /\ UNCHANGED <<conversations, onlineUsers, now>>

\* the membership checks, then Message.create validates the document and
\* inserts the message; a validation error goes to the catch block
SendMessageCheck(o) ==
    /\ ops[o].kind = "send_message"
    /\ ops[o].pc = "loaded"
    /\ IF ~ops[o].doc.found
       THEN /\ sockets' = Deliver(sockets, {ops[o].sock},
                             Event("error", 0, 0, NoUser, o, "Conversation not found"))
            /\ ops' = [ops EXCEPT ![o].pc = "done"]
            /\ UNCHANGED <<messages, audit>>
       ELSE IF ~IsParticipant(ops[o].doc, ops[o].user)
       THEN /\ sockets' = Deliver(sockets, {ops[o].sock},
                             Event("error", 0, 0, NoUser, o, "Not authorized"))
            /\ ops' = [ops EXCEPT ![o].pc = "done"]
            /\ UNCHANGED <<messages, audit>>
       ELSE IF ~ValidContent(ops[o].content)
       THEN /\ sockets' = Deliver(sockets, {ops[o].sock},
                             Event("error", 0, 0, NoUser, o, "Failed to send message"))
            /\ ops' = [ops EXCEPT ![o].pc = "done", ![o].status = 500,
                                  ![o].result = 1]
            /\ UNCHANGED <<messages, audit>>
       ELSE /\ messages' = Append(messages, NewMessage(ops[o].conv, ops[o].user))
            /\ ops' = [ops EXCEPT
                  ![o].pc = "created",
                  ![o].msg = Len(messages) + 1,
                  ![o].mdocs = << [ id |-> Len(messages) + 1,
                                    conversation |-> ops[o].conv,
                                    sender |-> ops[o].user,
                                    readBy |-> <<>>, deliveredTo |-> <<>> ] >>,
                  ![o].todo = OtherParticipants(ops[o].doc.participants, ops[o].user)]
            /\ audit' = AuditAdd(audit, ops[o].conv, "sent",
                                 SeqToSet(ops[o].doc.participants) \ {ops[o].user}, 1)
            /\ UNCHANGED sockets
    /\ UNCHANGED <<conversations, onlineUsers, now>>

\* mutant: after the hook the handler goes straight to the broadcast
SendMessagePostSaveThenBroadcast(o) ==
    /\ ops[o].kind = "send_message"
    /\ ops[o].pc = "created"
    /\ conversations' = PostSave(conversations, ops[o].msg, ops[o].conv,
                                 messages[ops[o].msg].createdAt)
    /\ ops' = [ops EXCEPT ![o].pc = "broadcast"]
    /\ UNCHANGED <<messages, sockets, onlineUsers, now, audit>>

\* the post-save hook of Message.create records the last message
SendMessagePostSave(o) ==
    /\ ops[o].kind = "send_message"
    /\ ops[o].pc = "created"
    /\ conversations' = PostSave(conversations, ops[o].msg, ops[o].conv,
                                 messages[ops[o].msg].createdAt)
    /\ ops' = [ops EXCEPT ![o].pc = IF ops[o].todo = <<>> THEN "broadcast"
                                    ELSE "increment"]
    /\ UNCHANGED <<messages, sockets, onlineUsers, now, audit>>

\* one turn of the loop: conversation.incrementUnread(participantId)
SendMessageIncrement(o) ==
    /\ ops[o].kind = "send_message"
    /\ ops[o].pc = "increment"
    /\ LET p == Head(ops[o].todo)
           m == incrementUnread(ops[o].doc, p)
       IN /\ conversations' = SaveUnread(conversations, ops[o].conv, p, m[p])
          /\ ops' = [ops EXCEPT
                ![o].doc.unreadCount = m,
                ![o].todo = Tail(@),
                ![o].pc = IF Tail(ops[o].todo) = <<>> THEN "broadcast"
                          ELSE "increment"]
          /\ audit' = AuditAdd(audit, ops[o].conv, "applied", {p}, 1)
    /\ UNCHANGED <<messages, sockets, onlineUsers, now>>

\* the delivery loop up to its next save: an offline participant is skipped, a
\* participant the copy already lists gets message_delivered at once
RECURSIVE DeliverLoop(_, _, _, _)
DeliverLoop(o, todo, mdoc, sk) ==
    IF todo = <<>>
    THEN [ pc |-> "done", todo |-> <<>>, target |-> 0, sk |-> sk ]
    ELSE IF onlineUsers[Head(todo)] = 0
    THEN DeliverLoop(o, Tail(todo), mdoc, sk)
    ELSE IF isDeliveredTo(mdoc, Head(todo))
    THEN DeliverLoop(o, Tail(todo), mdoc,
                     Deliver(sk, {onlineUsers[Head(todo)]},
                             Event("message_delivered", mdoc.conversation, mdoc.id,
                                   NoUser, o, "")))
    ELSE [ pc |-> "deliver_save", todo |-> todo,
           target |-> onlineUsers[Head(todo)], sk |-> sk ]

\* new_message to the room, message_sent to the sender, start of the delivery loop
SendMessageBroadcast(o) ==
    /\ ops[o].kind = "send_message"
    /\ ops[o].pc = "broadcast"
    /\ LET c    == ops[o].conv
           sk1  == Deliver(sockets, InRoom(sockets, c),
                           Event("new_message", c, ops[o].msg, ops[o].user, o, ""))
           sk2  == Deliver(sk1, {ops[o].sock},
                           Event("message_sent", c, ops[o].msg, ops[o].user, o, ""))
           loop == DeliverLoop(o, OtherParticipants(ops[o].doc.participants,
                                                    ops[o].user),
                               ops[o].mdocs[1], sk2)
       IN /\ sockets' = loop.sk
          /\ ops' = [ops EXCEPT ![o].pc = loop.pc, ![o].todo = loop.todo,
                                ![o].target = loop.target]
    /\ UNCHANGED <<conversations, messages, onlineUsers, now, audit>>

\* message.markAsDelivered(participantId): push on the copy and save
SendMessageDeliverSave(o) ==
    /\ ops[o].kind = "send_message"
    /\ ops[o].pc = "deliver_save"
    /\ LET p == Head(ops[o].todo)
           pushed == [user |-> p, at |-> now]
       IN /\ messages' = [messages EXCEPT
                ![ops[o].msg].deliveredTo = Append(@, pushed)]
          /\ ops' = [ops EXCEPT
                ![o].mdocs[1].deliveredTo = markAsDelivered(ops[o].mdocs[1], p),
                ![o].pc = "deliver_hook"]
    /\ UNCHANGED <<conversations, sockets, onlineUsers, now, audit>>

\* the post-save hook of that save
SendMessageDeliverHook(o) ==
    /\ ops[o].kind = "send_message"
    /\ ops[o].pc = "deliver_hook"
    /\ conversations' = PostSave(conversations, ops[o].msg, ops[o].conv,
                                 messages[ops[o].msg].createdAt)
    /\ ops' = [ops EXCEPT ![o].pc = "deliver_emit"]
    /\ UNCHANGED <<messages, sockets, onlineUsers, now, audit>>

\* message_delivered to the socket looked up before the save, then the loop goes on
SendMessageDeliverEmit(o) ==
    /\ ops[o].kind = "send_message"
    /\ ops[o].pc = "deliver_emit"
    /\ LET sk1  == Deliver(sockets, {ops[o].target},
                           Event("message_delivered", ops[o].conv, ops[o].msg,
                                 NoUser, o, ""))
           loop == DeliverLoop(o, Tail(ops[o].todo), ops[o].mdocs[1], sk1)
       IN /\ sockets' = loop.sk
          /\ ops' = [ops EXCEPT ![o].pc = loop.pc, ![o].todo = loop.todo,
                                ![o].target = loop.target]
    /\ UNCHANGED <<conversations, messages, onlineUsers, now, audit>>

----------------------------------------------------------------------------
(* message_read *)

\* the event arrives and Message.findById(messageId) is answered
MessageReadStart(s, m) ==
    /\ sockets[s].connected
    /\ ops' = Append(ops, [NewOp("message_read", s, sockets[s].user) EXCEPT
                              !.msg = m, !.pc = "loaded",
                              !.mdocs = IF m \in 1..Len(messages)
                                        THEN <<LoadMessage(m)>> ELSE <<>>])
    /\ UNCHANGED <<conversations, messages, sockets, onlineUsers, now, audit>>

\* the receipt to the sender's socket, if the sender has a presence entry
ReadReceipt(sk, o, mdoc, userId) ==
    IF onlineUsers[mdoc.sender] # 0
    THEN Deliver(sk, {onlineUsers[mdoc.sender]},
                 Event("message_read_receipt", mdoc.conversation, mdoc.id, userId,
                       o, ""))
    ELSE sk

\* message.markAsRead(userId) on the loaded copy: a save only if the copy
\* does not list the user yet
MessageReadMark(o) ==
    /\ ops[o].kind = "message_read"
    /\ ops[o].pc = "loaded"
    /\ IF ops[o].mdocs = <<>>
       THEN /\ ops' = [ops EXCEPT ![o].pc = "done"]
            /\ UNCHANGED <<messages, sockets>>
       ELSE IF isReadBy(ops[o].mdocs[1], ops[o].user)
       THEN /\ sockets' = ReadReceipt(sockets, o, ops[o].mdocs[1], ops[o].user)
            /\ ops' = [ops EXCEPT ![o].pc = "done"]
            /\ UNCHANGED messages
       ELSE /\ messages' = [messages EXCEPT
                  ![ops[o].msg].readBy =
                      Append(@, [user |-> ops[o].user, at |-> now])]
            /\ ops' = [ops EXCEPT
                  ![o].mdocs[1].readBy = markAsRead(ops[o].mdocs[1], ops[o].user),
                  ![o].pc = "read_hook"]
            /\ UNCHANGED sockets
    /\ UNCHANGED <<conversations, onlineUsers, now, audit>>

\* mutant: a rejected query or save is reported to the caller
MessageReadFailReported(o) ==
    /\ ops[o].kind = "message_read"
    /\ ops[o].pc = "loaded"
    /\ sockets' = Deliver(sockets, {ops[o].sock},
                          Event("error", 0, ops[o].msg, NoUser, o,
                                "Failed to mark message as read"))
    /\ ops' = [ops EXCEPT ![o].pc = "done", ![o].status = 500, ![o].result = 1]
    /\ UNCHANGED <<conversations, messages, onlineUsers, now, audit>>

\* Message.findById or the save of markAsRead rejects: the catch block logs
\* the error and the handler ends
MessageReadFail(o) ==
    /\ ops[o].kind = "message_read"
    /\ ops[o].pc = "loaded"
    /\ ops' = [ops EXCEPT ![o].pc = "done", ![o].status = 500, ![o].result = 1]
    /\ UNCHANGED <<conversations, messages, sockets, onlineUsers, now, audit>>

\* the post-save hook of that save
MessageReadHook(o) ==
    /\ ops[o].kind = "message_read"
    /\ ops[o].pc = "read_hook"
    /\ conversations' = PostSave(conversations, ops[o].msg,
                                 ops[o].mdocs[1].conversation,
                                 messages[ops[o].msg].createdAt)
    /\ ops' = [ops EXCEPT ![o].pc = "read_notify"]
    /\ UNCHANGED <<messages, sockets, onlineUsers, now, audit>>

\* the receipt after the save
MessageReadNotify(o) ==
    /\ ops[o].kind = "message_read"
    /\ ops[o].pc = "read_notify"
    /\ sockets' = ReadReceipt(sockets, o, ops[o].mdocs[1], ops[o].user)
    /\ ops' = [ops EXCEPT ![o].pc = "done"]
    /\ UNCHANGED <<conversations, messages, onlineUsers, now, audit>>

----------------------------------------------------------------------------
(* PATCH /api/chat/conversations/:id/read (controller markAsRead) *)

\* Message.find({ conversation: id, sender: { $ne: user },
\* 'readBy.user': { $ne: user } }): loaded copies, in insertion order
RECURSIVE UnreadMessages(_, _, _)
UnreadMessages(k, c, userId) ==
    IF k > Len(messages) THEN <<>>
    ELSE IF /\ messages[k].conversation = c
            /\ messages[k].sender # userId
            /\ ~isReadBy(messages[k], userId)
         THEN <<LoadMessage(k)>> \o UnreadMessages(k + 1, c, userId)
         ELSE UnreadMessages(k + 1, c, userId)

\* the request arrives and Conversation.findById(id) is answered
MarkAsReadStart(userId, c) ==
    /\ ops' = Append(ops, [NewOp("markAsRead", 0, userId) EXCEPT
                              !.conv = c, !.pc = "loaded",
                              !.doc = LoadConversation(c)])
    /\ UNCHANGED <<conversations, messages, sockets, onlineUsers, now, audit>>

\* 404, 403, or the query for the caller's unread messages
MarkAsReadCheck(o) ==
    /\ ops[o].kind = "markAsRead"
    /\ ops[o].pc = "loaded"
    /\ ops' =
         IF ~ops[o].doc.found
         THEN [ops EXCEPT ![o].pc = "done", ![o].status = 404]
         ELSE IF ~IsParticipant(ops[o].doc, ops[o].user)
         THEN [ops EXCEPT ![o].pc = "done", ![o].status = 403]
         ELSE LET found == UnreadMessages(1, ops[o].conv, ops[o].user)
              IN [ops EXCEPT ![o].mdocs = found,
                             ![o].result = Len(found),
                             ![o].pc = IF found = <<>> THEN "reset" ELSE "mark"]
    /\ UNCHANGED <<conversations, messages, sockets, onlineUsers, now, audit>>

\* one turn of the loop: message.markAsRead(req.user.id) on the loaded copy
MarkAsReadMark(o) ==
    /\ ops[o].kind = "markAsRead"
    /\ ops[o].pc = "mark"
    /\ LET d == Head(ops[o].mdocs)
       IN IF isReadBy(d, ops[o].user)
          THEN /\ ops' = [ops EXCEPT
                     ![o].mdocs = Tail(@),
                     ![o].pc = IF Tail(ops[o].mdocs) = <<>> THEN "reset" ELSE "mark"]
               /\ UNCHANGED messages
          ELSE /\ messages' = [messages EXCEPT
                     ![d.id].readBy = Append(@, [user |-> ops[o].user, at |-> now])]
               /\ ops' = [ops EXCEPT
                     ![o].mdocs[1].readBy = markAsRead(d, ops[o].user),
                     ![o].pc = "mark_hook"]
    /\ UNCHANGED <<conversations, sockets, onlineUsers, now, audit>>

\* the post-save hook of that save
MarkAsReadHook(o) ==
    /\ ops[o].kind = "markAsRead"
    /\ ops[o].pc = "mark_hook"
    /\ LET d == Head(ops[o].mdocs)
       IN conversations' = PostSave(conversations, d.id, d.conversation,
                                    messages[d.id].createdAt)
    /\ ops' = [ops EXCEPT
          ![o].mdocs = Tail(@),
          ![o].pc = IF Tail(ops[o].mdocs) = <<>> THEN "reset" ELSE "mark"]
    /\ UNCHANGED <<messages, sockets, onlineUsers, now, audit>>

\* conversation.resetUnread(req.user.id) on the copy loaded at the start, then 200
MarkAsReadReset(o) ==
    /\ ops[o].kind = "markAsRead"
    /\ ops[o].pc = "reset"
    /\ LET m == resetUnread(ops[o].doc, ops[o].user)
       IN /\ conversations' = SaveUnread(conversations, ops[o].conv, ops[o].user,
                                         m[ops[o].user])
          /\ ops' = [ops EXCEPT ![o].doc.unreadCount = m, ![o].pc = "done",
                                ![o].status = 200]
    /\ audit' = AuditReset(audit, ops[o].conv, ops[o].user)
    /\ UNCHANGED <<messages, sockets, onlineUsers, now>>

----------------------------------------------------------------------------
(* Initial states *)

InitEmpty ==
    /\ conversations = <<>>
    /\ messages = <<>>
    /\ sockets = <<>>
    /\ onlineUsers = [u \in Users |-> 0]
    /\ ops = <<>>
    /\ now = 0
    /\ audit = <<>>

\* two conversations made by findOrCreate: P with D, and A with D
InitChat ==
    /\ conversations = << NewConversation("P", "D", 0), NewConversation("A", "D", 0) >>
    /\ messages = <<>>
    /\ sockets = <<>>
    /\ onlineUsers = [u \in Users |-> 0]
    /\ ops = <<>>
    /\ now = 0
    /\ audit = << NewAudit("P", "D"), NewAudit("A", "D") >>

\* one conversation made by findOrCreate: P with D
InitPair ==
    /\ conversations = << NewConversation("P", "D", 0) >>
    /\ messages = <<>>
    /\ sockets = <<>>
    /\ onlineUsers = [u \in Users |-> 0]
    /\ ops = <<>>
    /\ now = 0
    /\ audit = << NewAudit("P", "D") >>

\* the store after P sent one message to D and the server process restarted:
\* sockets and presence are process-local and start empty
InitOneMessage ==
    /\ conversations =
          << [NewConversation("P", "D", 0) EXCEPT
                 !.lastMessage = 1, !.unreadCount = MapSet(@, "D", 1)] >>
    /\ messages = << [ conversation |-> 1, sender |-> "P", readBy |-> <<>>,
                       deliveredTo |-> <<>>, createdAt |-> 0,
                       isDeleted |-> FALSE ] >>
    /\ sockets = <<>>
    /\ onlineUsers = [u \in Users |-> 0]
    /\ ops = <<>>
    /\ now = 0
    /\ audit = << [ sent |-> [P |-> 0, D |-> 1], applied |-> [P |-> 0, D |-> 1] ] >>

\* conversation ids a client may name: the existing ones and one that resolves
\* to nothing
ConvIds == 1..(Len(conversations) + 1)

----------------------------------------------------------------------------
(* SpecCreate: concurrent find-or-create requests on an empty store *)

NextCreate ==
    \/ \E u \in Users, p \in Users \cup {NoUser, GhostUser} :
          /\ Len(ops) < MaxCreateOps
          /\ CreateConversationStart(u, p)
    \/ \E o \in OpIds : CreateConversationFinish(o)

SpecCreate == InitEmpty /\ [][NextCreate]_vars

----------------------------------------------------------------------------
PairOf(c) == SeqToSet(conversations[c].participants)

(* C1: under any interleaving of concurrent findOrCreate(A,B) calls for a  *)
(* pair without a conversation, exactly one conversation is created and    *)
(* every call resolves to the same id; at most one direct conversation     *)
(* exists per unordered pair of identities.                                *)
C1_OneConversationPerPair ==
    /\ \A c1, c2 \in 1..Len(conversations) :
          (/\ conversations[c1].conversationType = "direct"
           /\ conversations[c2].conversationType = "direct"
           /\ PairOf(c1) = PairOf(c2)) => c1 = c2
    /\ \A o1, o2 \in OpIds :
          (/\ ops[o1].kind = "createConversation" /\ ops[o1].status = 201
           /\ ops[o2].kind = "createConversation" /\ ops[o2].status = 201
           /\ {ops[o1].user, ops[o1].peer} = {ops[o2].user, ops[o2].peer})
          => ops[o1].result = ops[o2].result

----------------------------------------------------------------------------
(* SpecChat: connections that join, send and disconnect, handlers interleaved *)

NextChat ==
    \/ \E u \in Users : Len(sockets) < MaxSockets /\ Connect(u)
    \/ \E s \in SocketIds : AutoJoinJoin(s)
    \/ \E s \in SocketIds : Disconnect(s)
    \/ \E s \in SocketIds, c \in ConvIds :
          Len(ops) < MaxChatOps /\ JoinConversationStart(s, c)
    \/ \E o \in OpIds : JoinConversationFinish(o)
    \/ \E s \in SocketIds, c \in ConvIds :
          Len(ops) < MaxChatOps /\ SendMessageStart(s, c)
    \/ \E o \in OpIds : SendMessageCheck(o)
    \/ \E o \in OpIds : SendMessagePostSave(o)
    \/ \E o \in OpIds : SendMessageIncrement(o)
    \/ \E o \in OpIds : SendMessageBroadcast(o)
    \/ \E o \in OpIds : SendMessageDeliverSave(o)
    \/ \E o \in OpIds : SendMessageDeliverHook(o)
    \/ \E o \in OpIds : SendMessageDeliverEmit(o)

SpecChat == InitChat /\ [][NextChat]_vars

----------------------------------------------------------------------------
(* SpecConc: the two participants of one conversation send, read and mark   *)
(* read, handlers interleaved at every await                                *)

Pair == {"P", "D"}

AllDone == \A o \in OpIds : ops[o].pc = "done"

\* another handler may start: bounds on the handlers in all and at once
MayStartConc ==
    /\ Len(ops) < MaxConcOps
    /\ Cardinality({o \in OpIds : InFlight(o)}) < MaxInFlight

NextConc ==
    \/ \E u \in Pair :
          Len(sockets) < MaxSockets /\ ~isUserOnline(u) /\ Connect(u)
    \/ \E s \in SocketIds : AutoJoinJoin(s)
    \/ \E s \in SocketIds : MayStartConc /\ SendMessageStart(s, 1)
    \/ \E o \in OpIds : SendMessageCheck(o)
    \/ \E o \in OpIds : SendMessagePostSave(o)
    \/ \E o \in OpIds : SendMessageIncrement(o)
    \/ \E o \in OpIds : SendMessageBroadcast(o)
    \/ \E o \in OpIds : SendMessageDeliverSave(o)
    \/ \E o \in OpIds : SendMessageDeliverHook(o)
    \/ \E o \in OpIds : SendMessageDeliverEmit(o)
    \/ \E s \in SocketIds, m \in 1..Len(messages) :
          MayStartConc /\ MessageReadStart(s, m)
    \/ \E o \in OpIds : MessageReadMark(o)
    \/ \E o \in OpIds : MessageReadHook(o)
    \/ \E o \in OpIds : MessageReadNotify(o)
    \/ \E u \in Pair : MayStartConc /\ MarkAsReadStart(u, 1)
    \/ \E o \in OpIds : MarkAsReadCheck(o)
    \/ \E o \in OpIds : MarkAsReadMark(o)
    \/ \E o \in OpIds : MarkAsReadHook(o)
    \/ \E o \in OpIds : MarkAsReadReset(o)

SpecConc == InitPair /\ [][NextConc]_vars

----------------------------------------------------------------------------
(* SpecSeq: users connect, then sends and mark-conversation-read requests   *)
(* follow, each handler started only when the previous has completed        *)

MayStartSeq == Len(ops) < MaxSeqOps /\ AllDone

NextSeq ==
    \/ \E u \in Users :
          Len(sockets) < MaxSockets /\ ops = <<>> /\ ~isUserOnline(u) /\ Connect(u)
    \/ \E s \in SocketIds : ops = <<>> /\ AutoJoinJoin(s)
    \/ \E s \in SocketIds : MayStartSeq /\ SendMessageStart(s, 1)
    \/ \E o \in OpIds : SendMessageCheck(o)
    \/ \E o \in OpIds : SendMessagePostSave(o)
    \/ \E o \in OpIds : SendMessageIncrement(o)
    \/ \E o \in OpIds : SendMessageBroadcast(o)
    \/ \E o \in OpIds : SendMessageDeliverSave(o)
    \/ \E o \in OpIds : SendMessageDeliverHook(o)
    \/ \E o \in OpIds : SendMessageDeliverEmit(o)
    \/ \E u \in Pair : MayStartSeq /\ MarkAsReadStart(u, 1)
    \/ \E o \in OpIds : MarkAsReadCheck(o)
    \/ \E o \in OpIds : MarkAsReadMark(o)
    \/ \E o \in OpIds : MarkAsReadHook(o)
    \/ \E o \in OpIds : MarkAsReadReset(o)

SpecSeq == InitPair /\ [][NextSeq]_vars

----------------------------------------------------------------------------
(* SpecMark: the methods markAsRead and markAsDelivered called one after    *)
(* another on one message document, the clock advancing in between          *)

\* message.markAsRead(userId), with the save and its post-save hook when the
\* document changed
CallMarkAsRead(m, userId) ==
    /\ messages' = [messages EXCEPT ![m].readBy = markAsRead(messages[m], userId)]
    /\ conversations' =
          IF isReadBy(messages[m], userId) THEN conversations
          ELSE PostSave(conversations, m, messages[m].conversation,
                        messages[m].createdAt)
    /\ ops' = Append(ops, [NewOp("Message.markAsRead", 0, userId) EXCEPT
                              !.msg = m, !.result = now])
    /\ UNCHANGED <<sockets, onlineUsers, now, audit>>

\* message.markAsDelivered(userId), likewise
CallMarkAsDelivered(m, userId) ==
    /\ messages' = [messages EXCEPT
          ![m].deliveredTo = markAsDelivered(messages[m], userId)]
    /\ conversations' =
          IF isDeliveredTo(messages[m], userId) THEN conversations
          ELSE PostSave(conversations, m, messages[m].conversation,
                        messages[m].createdAt)
    /\ ops' = Append(ops, [NewOp("Message.markAsDelivered", 0, userId) EXCEPT
                              !.msg = m, !.result = now])
    /\ UNCHANGED <<sockets, onlineUsers, now, audit>>

\* time passes
Tick ==
    /\ now < MaxTime
    /\ now' = now + 1
    /\ UNCHANGED <<conversations, messages, sockets, onlineUsers, ops, audit>>

NextMark ==
    \/ \E m \in 1..Len(messages), u \in Users :
          Len(ops) < MaxMarkCalls /\ CallMarkAsRead(m, u)
    \/ \E m \in 1..Len(messages), u \in Users :
          Len(ops) < MaxMarkCalls /\ CallMarkAsDelivered(m, u)
    \/ Tick

SpecMark == InitOneMessage /\ [][NextMark]_vars

----------------------------------------------------------------------------
(* Vocabulary of the claims *)

\* userId is not among the participants of the existing conversation c
Outsider(userId, c) ==
    /\ c \in 1..Len(conversations)
    /\ userId \notin SeqToSet(conversations[c].participants)

\* the events handler o put into the inbox of socket s
EventsOf(s, o) == { e \in sockets[s].inbox : e.op = o }

\* handler o takes a step
Moves(o) == ops'[o] # ops[o]

----------------------------------------------------------------------------
(* C2: a connection whose identity is not a participant of conversation C  *)
(* is never in C's room and never receives a new_message event for C.      *)

C2_OutsiderNeverInRoom ==
    \A s \in SocketIds : \A c \in 1..Len(conversations) :
        Outsider(sockets[s].user, c) =>
            /\ c \notin sockets[s].rooms
            /\ \A e \in sockets[s].inbox : ~(e.type = "new_message" /\ e.conv = c)

\* an outsider's join attempt on C has completed on a live connection, and a
\* message sent to C afterwards has been broadcast
C2_Witness ==
    \E j \in OpIds, t \in OpIds, s \in SocketIds :
        /\ ops[j].kind = "join_conversation" /\ ops[j].pc = "done"
        /\ Outsider(ops[j].user, ops[j].conv)
        /\ sockets[ops[j].sock].connected
        /\ t > j /\ ops[t].kind = "send_message" /\ ops[t].conv = ops[j].conv
        /\ \E e \in EventsOf(s, t) : e.type = "new_message"

----------------------------------------------------------------------------
OutsiderSend(o) ==
    /\ ops[o].kind = "send_message"
    /\ Outsider(ops[o].user, ops[o].conv)

C3_StepOfOutsiderSend(o) ==
    /\ conversations' = conversations
    /\ messages' = messages
    /\ onlineUsers' = onlineUsers
    /\ ops'[o].pc = "done" /\ ops'[o].msg = 0
    /\ \A s \in SocketIds :
          IF s = ops[o].sock /\ sockets[s].connected
          THEN /\ sockets'[s].rooms = sockets[s].rooms
               /\ \E e \in sockets'[s].inbox \ sockets[s].inbox :
                     /\ e.type = "error" /\ e.op = o
                     /\ sockets'[s].inbox = sockets[s].inbox \cup {e}
          ELSE sockets'[s] = sockets[s]

(* C3: a send_message for C from a connection that is not a participant of *)
(* C yields an error event to that connection only; no message is          *)
(* persisted, no counter or last-message pointer changes, and no           *)
(* new_message, message_sent or message_delivered event is emitted.        *)
C3_OutsiderSendOnlyErrors ==
    [][\A o \in OpIds : (OutsiderSend(o) /\ Moves(o)) => C3_StepOfOutsiderSend(o)]_vars

\* an outsider's send has completed and its connection holds the error
C3_Witness ==
    \E o \in OpIds :
        /\ OutsiderSend(o) /\ ops[o].pc = "done"
        /\ \E e \in EventsOf(ops[o].sock, o) : e.type = "error"

----------------------------------------------------------------------------
OutsiderJoin(o) ==
    /\ ops[o].kind = "join_conversation"
    /\ Outsider(ops[o].user, ops[o].conv)

C4_StepOfOutsiderJoin(o) ==
    /\ conversations' = conversations
    /\ messages' = messages
    /\ onlineUsers' = onlineUsers
    /\ \A s \in SocketIds :
          /\ sockets'[s].rooms = sockets[s].rooms
          /\ s # ops[o].sock => sockets'[s] = sockets[s]
    /\ sockets[ops[o].sock].connected =>
          \E e \in sockets'[ops[o].sock].inbox :
              /\ e.type = "error" /\ e.op = o
              /\ sockets'[ops[o].sock].inbox = sockets[ops[o].sock].inbox \cup {e}

(* C4: a join_conversation for C from a connection that is not a           *)
(* participant of C emits an error to the requesting connection only,      *)
(* subscribes nothing and has no effect visible to any other connection.   *)
C4_OutsiderJoinOnlyError ==
    [][\A o \in OpIds : (OutsiderJoin(o) /\ Moves(o)) => C4_StepOfOutsiderJoin(o)]_vars

\* an outsider's join has completed with the error while another connection is open
C4_Witness ==
    \E o \in OpIds, s \in SocketIds :
        /\ OutsiderJoin(o) /\ ops[o].pc = "done"
        /\ \E e \in EventsOf(ops[o].sock, o) : e.type = "error"
        /\ s # ops[o].sock /\ sockets[s].connected

----------------------------------------------------------------------------
(* C10: after a connection disconnects its identity's presence lookup      *)
(* returns absent and the connection is in no room; a later broadcast to a *)
(* room it had joined does not reach it.                                   *)

C10_DisconnectClears ==
    [][\A s \in SocketIds :
          /\ (sockets[s].connected /\ ~sockets'[s].connected) =>
                /\ ~isUserOnline(sockets[s].user)'
                /\ sockets'[s].rooms = {}
          /\ ~sockets[s].connected =>
                /\ ~sockets'[s].connected
                /\ sockets'[s].inbox = sockets[s].inbox]_vars

\* a closed connection had received a message of a conversation, and a later
\* send to that conversation is about to broadcast to a room that is not empty
C10_Witness ==
    \E s, r \in SocketIds, o \in OpIds :
        /\ ~sockets[s].connected
        /\ ~isUserOnline(sockets[s].user)
        /\ \E e \in sockets[s].inbox :
              e.type = "new_message" /\ e.conv = ops[o].conv
        /\ ops[o].kind = "send_message" /\ ops[o].pc = "broadcast"
        /\ sockets[r].connected /\ ops[o].conv \in sockets[r].rooms

----------------------------------------------------------------------------
MessagesOf(c) == { m \in 1..Len(messages) : messages[m].conversation = c }

Max(S) == CHOOSE x \in S : \A y \in S : x >= y

OnlySends == \A o \in OpIds : ops[o].kind = "send_message"

(* C5: once all N successful sends of a conversation have completed, also  *)
(* sends handled concurrently, the conversation's last-message pointer     *)
(* names the Nth, most recently created, message of that conversation.     *)
C5_LastMessageIsNewest ==
    (OnlySends /\ AllDone) =>
        \A c \in 1..Len(conversations) :
            MessagesOf(c) # {} => conversations[c].lastMessage = Max(MessagesOf(c))

----------------------------------------------------------------------------
(* C7: incrementUnread and resetUnread are atomic with respect to          *)
(* concurrent calls on the same conversation: no increment and no reset is *)
(* lost, so a participant's counter equals the number of increments        *)
(* applied after that participant's last reset.                            *)

C7_NoLostUpdate ==
    \A c \in 1..Len(conversations) : \A u \in DOMAIN audit[c].applied :
        MapGetOr0(conversations[c].unreadCount, u) = audit[c].applied[u]

----------------------------------------------------------------------------
RecordsOf(records, userId) ==
    { i \in 1..Len(records) : records[i].user = userId }

(* C9: a message holds at most one read record and at most one delivery    *)
(* record per identity, also when the same (message, recipient) pair is    *)
(* marked by two operations in flight at the same time.                    *)
C9_OneRecordPerIdentity ==
    \A m \in 1..Len(messages) : \A u \in Users :
        /\ Cardinality(RecordsOf(messages[m].readBy, u)) <= 1
        /\ Cardinality(RecordsOf(messages[m].deliveredTo, u)) <= 1

----------------------------------------------------------------------------
(* C6: for sends and mark-conversation-read operations executed one after  *)
(* another, each participant's unread counter equals the number of         *)
(* messages the other participant sent since that participant's last       *)
(* reset (0 after findOrCreate and after each own reset).                  *)

C6_UnreadCountsSends ==
    AllDone =>
        \A c \in 1..Len(conversations) : \A u \in DOMAIN audit[c].sent :
            MapGetOr0(conversations[c].unreadCount, u) = audit[c].sent[u]

\* a participant reset the counter and the other then sent two more messages
C6_Witness ==
    \E r, t1, t2 \in OpIds :
        /\ AllDone
        /\ ops[r].kind = "markAsRead" /\ ops[r].status = 200
        /\ r < t1 /\ t1 < t2
        /\ ops[t1].kind = "send_message" /\ ops[t1].msg # 0
        /\ ops[t2].kind = "send_message" /\ ops[t2].msg # 0
        /\ ops[t1].user # ops[r].user /\ ops[t2].user # ops[r].user
        /\ conversations[1].unreadCount[ops[r].user] = 2

----------------------------------------------------------------------------
RecordSet(records, userId) == { records[i] : i \in RecordsOf(records, userId) }

KeepsRecord(before, after, userId) ==
    RecordsOf(before, userId) # {} =>
        /\ Cardinality(RecordsOf(after, userId)) = Cardinality(RecordsOf(before, userId))
        /\ RecordSet(after, userId) = RecordSet(before, userId)

(* C8: markRead and markDelivered are idempotent: a second call with the   *)
(* same (message, recipient) pair leaves the timestamp recorded by the     *)
(* first call unchanged and adds no second record for that recipient.      *)
C8_MarkIdempotent ==
    [][\A m \in 1..Len(messages) : \A u \in Users :
          /\ KeepsRecord(messages[m].readBy, messages'[m].readBy, u)
          /\ KeepsRecord(messages[m].deliveredTo, messages'[m].deliveredTo, u)]_vars

\* each method was called a second time for a recipient at a later clock value
\* than the one its record carries
SecondCall(kind, records) ==
    \E o1, o2 \in OpIds : \E i \in 1..Len(records) :
        /\ o1 < o2
        /\ ops[o1].kind = kind /\ ops[o2].kind = kind
        /\ ops[o1].user = ops[o2].user
        /\ records[i].user = ops[o2].user
        /\ records[i].at = ops[o1].result
        /\ ops[o2].result > records[i].at

C8_Witness ==
    /\ SecondCall("Message.markAsRead", messages[1].readBy)
    /\ SecondCall("Message.markAsDelivered", messages[1].deliveredTo)

----------------------------------------------------------------------------
(* C11: a connection that closes while its auto-subscribe or a             *)
(* join_conversation is in flight ends with no room subscription: the      *)
(* completion of the in-flight operation after the disconnect never adds   *)
(* the closed connection to a room.                                        *)
C11_ClosedConnectionInNoRoom ==
    \A s \in SocketIds : ~sockets[s].connected => sockets[s].rooms = {}

----------------------------------------------------------------------------
\* the participants of the conversation of handler o other than its caller
Others(o) == SeqToSet(conversations[ops[o].conv].participants) \ {ops[o].user}

\* this step puts an event of handler o of the given type into the inbox of s
Fresh(s, o, type) ==
    \E e \in sockets'[s].inbox \ sockets[s].inbox : e.op = o /\ e.type = type

\* socket s already holds an event of handler o of the given type
Holds(s, o, type) == \E e \in sockets[s].inbox : e.op = o /\ e.type = type

\* every other participant's counter already includes the message of handler o
CountersIncremented(o) ==
    \A p \in Others(o) :
        MapGetOr0(conversations[ops[o].conv].unreadCount, p)
            = audit[ops[o].conv].sent[p]

\* what a step of the successful send o may do, given what was done before it
C12_StepInOrder(o) ==
    LET c == ops[o].conv
        m == ops[o].msg
    IN  /\ conversations'[c].unreadCount # conversations[c].unreadCount =>
              /\ m \in 1..Len(messages)
              /\ conversations[c].lastMessage = m
              /\ \A s \in SocketIds : ~Holds(s, o, "new_message")
        /\ \A s \in SocketIds : Fresh(s, o, "new_message") =>
              /\ CountersIncremented(o)
              /\ messages[m].deliveredTo = <<>>
        /\ \A s \in SocketIds : Fresh(s, o, "message_sent") =>
              /\ s = ops[o].sock
              /\ CountersIncremented(o)
              /\ messages[m].deliveredTo = <<>>
        /\ messages'[m].deliveredTo # messages[m].deliveredTo =>
              Holds(ops[o].sock, o, "message_sent")
        /\ \A s \in SocketIds : Fresh(s, o, "message_delivered") =>
              /\ Holds(ops[o].sock, o, "message_sent")
              /\ \E p \in Others(o) :
                    onlineUsers[p] = s /\ isDeliveredTo(messages[m], p)

\* what the completed successful send o has left behind
C12_Completed(o) ==
    LET m == ops[o].msg
    IN  /\ \A s \in SocketIds :
              Holds(s, o, "message_sent") <=> s = ops[o].sock
        /\ \A p \in Others(o) :
              IF isUserOnline(p)
              THEN /\ Cardinality(RecordsOf(messages[m].deliveredTo, p)) = 1
                   /\ Holds(onlineUsers[p], o, "message_delivered")
              ELSE RecordsOf(messages[m].deliveredTo, p) = {}
        /\ \A s \in SocketIds :
              Holds(s, o, "message_delivered") =>
                  \E p \in Others(o) : onlineUsers[p] = s

(* C12: a successful send_message proceeds in this order: the message is   *)
(* persisted and the last-message pointer recorded before any unread       *)
(* counter is incremented; every other participant's counter is            *)
(* incremented before new_message is broadcast; message_sent goes to the   *)
(* originating connection only; only after that is the message marked      *)
(* delivered and message_delivered emitted, once for each other            *)
(* participant that has a presence entry.                                  *)
C12_SendStepsInOrder ==
    [][\A o \in OpIds :
          (ops[o].kind = "send_message" /\ ops[o].msg # 0 /\ Moves(o)) =>
              /\ C12_StepInOrder(o)
              /\ ops'[o].pc = "done" => C12_Completed(o)']_vars

\* a send has completed whose recipient was online: the room got new_message,
\* the sender message_sent, the recipient's connection message_delivered
C12_Witness ==
    \E o \in OpIds : \E p \in Users :
        /\ ops[o].kind = "send_message" /\ ops[o].msg # 0 /\ ops[o].pc = "done"
        /\ p \in Others(o) /\ isUserOnline(p)
        /\ Holds(onlineUsers[p], o, "new_message")
        /\ Holds(onlineUsers[p], o, "message_delivered")
        /\ Holds(ops[o].sock, o, "message_sent")
        /\ conversations[ops[o].conv].unreadCount[p] > 0

----------------------------------------------------------------------------
(* send_message: a rejected store operation lands in the catch block *)

\* the awaits of the handler that can reject, numbered: 1 = findById or
\* Message.create (nothing inserted), 2 = populate or an incrementUnread save,
\* 3 = the save of markAsDelivered
FailStage(pc) ==
    CASE pc = "loaded"       -> 1
      [] pc = "increment"    -> 2
      [] pc = "deliver_save" -> 3
      [] OTHER               -> 0

\* mutant: the catch block only logs
SendMessageFailSilent(o) ==
    /\ ops[o].kind = "send_message"
    /\ FailStage(ops[o].pc) # 0
    /\ ops' = [ops EXCEPT ![o].pc = "done", ![o].status = 500,
                          ![o].result = FailStage(ops[o].pc)]
    /\ UNCHANGED <<conversations, messages, sockets, onlineUsers, now, audit>>

\* catch (error): socket.emit('error', { message: 'Failed to send message' })
SendMessageFail(o) ==
    /\ ops[o].kind = "send_message"
    /\ FailStage(ops[o].pc) # 0
    /\ sockets' = Deliver(sockets, {ops[o].sock},
                          Event("error", 0, 0, NoUser, o, "Failed to send message"))
    /\ ops' = [ops EXCEPT ![o].pc = "done", ![o].status = 500,
                          ![o].result = FailStage(ops[o].pc)]
    /\ UNCHANGED <<conversations, messages, onlineUsers, now, audit>>

\* mutant: the failure is announced to every connection and the caller's
\* connection drops its room subscriptions
JoinConversationFailLoud(o) ==
    /\ ops[o].kind = "join_conversation"
    /\ ops[o].pc = "loaded"
    /\ sockets' = [ DeliverToAll(sockets, {ops[o].sock},
                       Event("error", 0, 0, NoUser, o, "Failed to join conversation"))
                     EXCEPT ![ops[o].sock].rooms = {} ]
    /\ ops' = [ops EXCEPT ![o].pc = "done", ![o].status = 500, ![o].result = 1]
    /\ UNCHANGED <<conversations, messages, onlineUsers, now, audit>>

\* join_conversation: findById rejects and the catch block reports it
JoinConversationFail(o) ==
    /\ ops[o].kind = "join_conversation"
    /\ ops[o].pc = "loaded"
    /\ sockets' = Deliver(sockets, {ops[o].sock},
                          Event("error", 0, 0, NoUser, o, "Failed to join conversation"))
    /\ ops' = [ops EXCEPT ![o].pc = "done", ![o].status = 500, ![o].result = 1]
    /\ UNCHANGED <<conversations, messages, onlineUsers, now, audit>>

----------------------------------------------------------------------------
(* SpecFail: users connect, then sends follow one after another, each of    *)
(* which may be cut short by a rejected store operation                     *)

MayStartFail == Len(ops) < MaxFailOps /\ AllDone

NextFail ==
    \/ \E u \in Users :
          Len(sockets) < MaxSockets /\ ops = <<>> /\ ~isUserOnline(u) /\ Connect(u)
    \/ \E s \in SocketIds : ops = <<>> /\ AutoJoinJoin(s)
    \/ \E s \in SocketIds : MayStartFail /\ SendMessageStart(s, 1)
    \/ \E o \in OpIds : SendMessageCheck(o)
    \/ \E o \in OpIds : SendMessagePostSave(o)
    \/ \E o \in OpIds : SendMessageIncrement(o)
    \/ \E o \in OpIds : SendMessageBroadcast(o)
    \/ \E o \in OpIds : SendMessageDeliverSave(o)
    \/ \E o \in OpIds : SendMessageDeliverHook(o)
    \/ \E o \in OpIds : SendMessageDeliverEmit(o)
    \/ \E o \in OpIds : SendMessageFail(o)

SpecFail == InitPair /\ [][NextFail]_vars

----------------------------------------------------------------------------
\* the events of handler o that socket s holds after this step
EventsAfter(s, o) == { e \in sockets'[s].inbox : e.op = o }

(* C13: if a send_message fails at a step before the room broadcast (the   *)
(* membership lookup, the message persistence or an unread-counter         *)
(* increment), no new_message, message_sent or message_delivered event for *)
(* that message reaches any connection; the only event emitted is an error *)
(* to the originating connection.                                          *)
C13_FailureBeforeBroadcastOnlyError ==
    [][\A o \in OpIds :
          (/\ ops[o].kind = "send_message" /\ Moves(o)
           /\ ops'[o].status = 500 /\ ops'[o].result \in {1, 2}) =>
              \A s \in SocketIds :
                  /\ sockets'[s].inbox \ sockets[s].inbox \subseteq EventsAfter(s, o)
                  /\ IF s = ops[o].sock /\ sockets[s].connected
                     THEN \E e \in EventsAfter(s, o) :
                             e.type = "error" /\ EventsAfter(s, o) = {e}
                     ELSE EventsAfter(s, o) = {}]_vars

\* a send failed at an unread-counter increment, after its message was
\* persisted, while the other participant's connection was in the room
C13_Witness ==
    \E o \in OpIds, s \in SocketIds :
        /\ ops[o].kind = "send_message" /\ ops[o].pc = "done"
        /\ ops[o].status = 500 /\ ops[o].result = 2 /\ ops[o].msg # 0
        /\ Holds(ops[o].sock, o, "error")
        /\ s # ops[o].sock /\ sockets[s].connected /\ ops[o].conv \in sockets[s].rooms

----------------------------------------------------------------------------
(* C14: when a participant completes mark-conversation-read on a           *)
(* conversation, every message of it thereby marked read for that          *)
(* participant causes a message_read_receipt naming the participant to be  *)
(* delivered to the connection of the message's sender, provided the       *)
(* sender is online.                                                       *)
C14_MarkConversationReadSendsReceipts ==
    \A o \in OpIds :
        (ops[o].kind = "markAsRead" /\ ops[o].pc = "done" /\ ops[o].status = 200) =>
            \A m \in MessagesOf(ops[o].conv) :
                (/\ messages[m].sender # ops[o].user
                 /\ isReadBy(messages[m], ops[o].user)
                 /\ isUserOnline(messages[m].sender)) =>
                    \E e \in sockets[onlineUsers[messages[m].sender]].inbox :
                        /\ e.type = "message_read_receipt"
                        /\ e.msg = m /\ e.user = ops[o].user

----------------------------------------------------------------------------
(* typing_start and typing_stop *)

\* typing_start: the event arrives and Conversation.findById is answered
TypingStartStart(s, c) ==
    /\ sockets[s].connected
    /\ ops' = Append(ops, [NewOp("typing_start", s, sockets[s].user) EXCEPT
                              !.conv = c, !.pc = "loaded",
                              !.doc = LoadConversation(c)])
    /\ UNCHANGED <<conversations, messages, sockets, onlineUsers, now, audit>>

\* the rest of typing_start: return when the conversation is missing or the
\* user is no participant, else user_typing to the room except the sender
TypingStartFinish(o) ==
    /\ ops[o].kind = "typing_start"
    /\ ops[o].pc = "loaded"
    /\ sockets' =
         IF ~ops[o].doc.found \/ ~IsParticipant(ops[o].doc, ops[o].user)
         THEN sockets
         ELSE Deliver(sockets, InRoom(sockets, ops[o].conv) \ {ops[o].sock},
                      Event("user_typing", ops[o].conv, 0, ops[o].user, o, ""))
    /\ ops' = [ops EXCEPT ![o].pc = "done"]
    /\ UNCHANGED <<conversations, messages, onlineUsers, now, audit>>

\* typing_stop: user_stop_typing to the room except the sender, at once
TypingStop(s, c) ==
    /\ sockets[s].connected
    /\ sockets' = Deliver(sockets, InRoom(sockets, c) \ {s},
                          Event("user_stop_typing", c, 0, sockets[s].user,
                                Len(ops) + 1, ""))
    /\ ops' = Append(ops, [NewOp("typing_stop", s, sockets[s].user) EXCEPT
                              !.conv = c])
    /\ UNCHANGED <<conversations, messages, onlineUsers, now, audit>>

----------------------------------------------------------------------------
(* SpecTyping: connections come and go and emit typing events *)

NextTyping ==
    \/ \E u \in Users : Len(sockets) < MaxSockets /\ Connect(u)
    \/ \E s \in SocketIds : AutoJoinJoin(s)
    \/ \E s \in SocketIds : Disconnect(s)
    \/ \E s \in SocketIds, c \in ConvIds :
          Len(ops) < MaxTypingOps /\ TypingStartStart(s, c)
    \/ \E o \in OpIds : TypingStartFinish(o)
    \/ \E s \in SocketIds, c \in ConvIds :
          Len(ops) < MaxTypingOps /\ TypingStop(s, c)

SpecTyping == InitChat /\ [][NextTyping]_vars

----------------------------------------------------------------------------
TypingEvents == {"user_typing", "user_stop_typing"}

(* C15: a typing_start or typing_stop event from a connection whose        *)
(* identity is not a participant of conversation C, or naming a            *)
(* nonexistent conversation, is silently ignored: no user_typing or        *)
(* user_stop_typing event for C is delivered to any connection, and no     *)
(* error event is emitted.                                                 *)
C15_OutsiderTypingIgnored ==
    \A s \in SocketIds : \A e \in sockets[s].inbox :
        /\ e.type \in TypingEvents =>
              /\ e.conv \in 1..Len(conversations)
              /\ e.user \in SeqToSet(conversations[e.conv].participants)
        /\ e.type # "error"

----------------------------------------------------------------------------
\* userId may mark message m read: a participant of its conversation other
\* than its sender
ValidRecipient(m, userId) ==
    /\ userId # messages[m].sender
    /\ messages[m].conversation \in 1..Len(conversations)
    /\ userId \in SeqToSet(conversations[messages[m].conversation].participants)

(* C16: message_read invoked by an identity that is not a valid recipient  *)
(* of the message (not a participant of its conversation, or its own       *)
(* sender) is a no-op: no read record is added to the message and no       *)
(* read-receipt is emitted on that identity's behalf.                      *)
C16_ReadByValidRecipientsOnly ==
    /\ \A m \in 1..Len(messages) : \A i \in 1..Len(messages[m].readBy) :
          ValidRecipient(m, messages[m].readBy[i].user)
    /\ \A s \in SocketIds : \A e \in sockets[s].inbox :
          e.type = "message_read_receipt" => ValidRecipient(e.msg, e.user)

----------------------------------------------------------------------------
(* GET /api/chat/conversations/:id/messages (controller getMessages) *)

\* const { limit = 50, before } = req.query: 0 stands for an absent parameter
DefaultLimit == 50

\* parseInt(limit) of the decimal digits of a positive number, or the default
LimitOf(q) == IF q = 0 THEN DefaultLimit ELSE q

\* no createdAt condition in the query
NoCutoff == -1

\* the documents matched by { conversation: id, isDeleted: false } and, when a
\* cutoff was set, createdAt: { $lt: cutoff }
MatchingMessages(c, cutoff) ==
    { m \in 1..Len(messages) :
        /\ messages[m].conversation = c
        /\ ~messages[m].isDeleted
        /\ (cutoff # NoCutoff => messages[m].createdAt < cutoff) }

\* .sort({ createdAt: -1 }): every order of S with createdAt descending; the
\* store is free in the order of documents with equal createdAt
SortedDesc(S) ==
    { q \in [1..Cardinality(S) -> S] :
        /\ \A i, j \in 1..Cardinality(S) : i # j => q[i] # q[j]
        /\ \A i, j \in 1..Cardinality(S) :
              i < j => messages[q[i]].createdAt >= messages[q[j]].createdAt }

\* messages.reverse()
Reverse(q) == [i \in 1..Len(q) |-> q[Len(q) + 1 - i]]

\* mutant: the page is returned as fetched, newest first
PageNewestFirst(sorted, limit) == SubSeq(sorted, 1, Min({limit, Len(sorted)}))

\* .limit(parseInt(limit)) of the sorted result, then messages.reverse()
Page(sorted, limit) == Reverse(SubSeq(sorted, 1, Min({limit, Len(sorted)})))

\* the request arrives and Conversation.findById(id) is answered
GetMessagesStart(userId, c, before, limit) ==
    /\ ops' = Append(ops, [NewOp("getMessages", 0, userId) EXCEPT
                              !.conv = c, !.msg = before, !.target = limit,
                              !.result = NoCutoff, !.pc = "loaded",
                              !.doc = LoadConversation(c)])
    /\ UNCHANGED <<conversations, messages, sockets, onlineUsers, now, audit>>

\* 404, 403, or the query is built: Message.findById(before) sets the cutoff
\* only if it finds the message
GetMessagesCheck(o) ==
    /\ ops[o].kind = "getMessages"
    /\ ops[o].pc = "loaded"
    /\ ops' =
         IF ~ops[o].doc.found
         THEN [ops EXCEPT ![o].pc = "done", ![o].status = 404]
         ELSE IF ~IsParticipant(ops[o].doc, ops[o].user)
         THEN [ops EXCEPT ![o].pc = "done", ![o].status = 403]
         ELSE IF ops[o].msg # 0 /\ ops[o].msg \in 1..Len(messages)
         THEN [ops EXCEPT ![o].pc = "query",
                          ![o].result = messages[ops[o].msg].createdAt]
         ELSE [ops EXCEPT ![o].pc = "query"]
    /\ UNCHANGED <<conversations, messages, sockets, onlineUsers, now, audit>>

\* Message.find(query).sort().limit(), reverse, and the 200 response
GetMessagesFind(o) ==
    /\ ops[o].kind = "getMessages"
    /\ ops[o].pc = "query"
    /\ \E sorted \in SortedDesc(MatchingMessages(ops[o].conv, ops[o].result)) :
          ops' = [ops EXCEPT ![o].pc = "done", ![o].status = 200,
                             ![o].todo = Page(sorted, LimitOf(ops[o].target))]
    /\ UNCHANGED <<conversations, messages, sockets, onlineUsers, now, audit>>

----------------------------------------------------------------------------
(* SpecPage: history requests against a store that holds up to MaxPageMsgs  *)
(* messages of one conversation, some soft-deleted, some created within     *)
(* the same clock value                                                     *)

\* the Message collection: createdAt never decreases in insertion order
MessageStores ==
    { q \in UNION { [1..n -> [ conversation : {1}, sender : {"P"},
                               readBy : {<<>>}, deliveredTo : {<<>>},
                               createdAt : 0..MaxTime, isDeleted : BOOLEAN ]] :
                    n \in 0..MaxPageMsgs } :
        \A i, j \in 1..Len(q) : i < j => q[i].createdAt <= q[j].createdAt }

InitPage ==
    /\ conversations = << NewConversation("P", "D", 0) >>
    /\ messages \in MessageStores
    /\ sockets = <<>>
    /\ onlineUsers = [u \in Users |-> 0]
    /\ ops = <<>>
    /\ now = MaxTime
    /\ audit = << NewAudit("P", "D") >>

NextPage ==
    \/ \E c \in ConvIds, before \in 0..(Len(messages) + 1), limit \in 0..MaxLimit :
          /\ Len(ops) < MaxPageOps /\ AllDone
          /\ GetMessagesStart("P", c, before, limit)
    \/ \E o \in OpIds : GetMessagesCheck(o)
    \/ \E o \in OpIds : GetMessagesFind(o)

SpecPage == InitPage /\ [][NextPage]_vars

----------------------------------------------------------------------------
\* the non-deleted messages of conversation c
NonDeleted(c) == { m \in MessagesOf(c) : ~messages[m].isDeleted }

\* history request o was answered with a page
Answered(o) ==
    ops[o].kind = "getMessages" /\ ops[o].pc = "done" /\ ops[o].status = 200

\* page holds distinct messages in ascending creation-time order
Ascending(page) ==
    \A i, j \in 1..Len(page) :
        i < j => /\ page[i] # page[j]
                 /\ messages[page[i]].createdAt <= messages[page[j]].createdAt

\* page holds the n most recent messages of S: none left out is more recent
\* than one returned
MostRecent(page, S, n) ==
    /\ Len(page) = Min({n, Cardinality(S)})
    /\ SeqToSet(page) \subseteq S
    /\ \A m \in S \ SeqToSet(page) : \A i \in 1..Len(page) :
          messages[m].createdAt <= messages[page[i]].createdAt

(* C18: listBefore(conv, before=M, limit=L) (getMessages) returns at most  *)
(* L messages, all with creation time strictly older than M's, in          *)
(* ascending creation-time order and excluding soft-deleted messages; with *)
(* before absent it returns the L most recent non-deleted messages in      *)
(* ascending order, for every positive bound L.                            *)
C18_PageOfHistory ==
    \A o \in OpIds :
        (Answered(o) /\ ops[o].target # 0 /\ ops[o].msg \in 0..Len(messages)) =>
            LET page == ops[o].todo
                L    == ops[o].target
            IN  /\ Len(page) <= L
                /\ Ascending(page)
                /\ SeqToSet(page) \subseteq NonDeleted(ops[o].conv)
                /\ IF ops[o].msg = 0
                   THEN MostRecent(page, NonDeleted(ops[o].conv), L)
                   ELSE \A i \in 1..Len(page) :
                           messages[page[i]].createdAt
                               < messages[ops[o].msg].createdAt

\* a request without cursor returned the most recent of several messages, and a
\* request with a cursor returned the one older message that is not deleted
\* while a deleted older message was left out
C18_Witness ==
    \E o1, o2 \in OpIds :
        /\ Answered(o1) /\ ops[o1].msg = 0 /\ ops[o1].target = 1
        /\ Len(ops[o1].todo) = 1 /\ Cardinality(NonDeleted(1)) > 1
        /\ Answered(o2) /\ ops[o2].msg \in 1..Len(messages) /\ ops[o2].target = 2
        /\ Len(ops[o2].todo) = 1
        /\ \E d \in MessagesOf(1) :
              /\ messages[d].isDeleted
              /\ messages[d].createdAt < messages[ops[o2].msg].createdAt

----------------------------------------------------------------------------
\* o1 fetched the newest page and o2 the page before the oldest message of
\* that page, with the same limit L and L < N <= 2L messages in the store
TwoPages(o1, o2) ==
    /\ Answered(o1) /\ Answered(o2)
    /\ ops[o1].conv = ops[o2].conv
    /\ ops[o1].target # 0 /\ ops[o1].target = ops[o2].target
    /\ ops[o1].msg = 0
    /\ ops[o1].todo # <<>> /\ ops[o2].msg = Head(ops[o1].todo)
    /\ ops[o1].target < Cardinality(NonDeleted(ops[o1].conv))
    /\ Cardinality(NonDeleted(ops[o1].conv)) <= 2 * ops[o1].target

(* C19: paging composes without loss or repetition: for N non-deleted      *)
(* messages and a limit L with L < N <= 2L, the page without cursor is the *)
(* newest L messages ascending and the page before its oldest message is   *)
(* exactly the remaining N-L older messages ascending, so the two pages    *)
(* together contain every message exactly once.                            *)
C19_PagesCompose ==
    \A o1, o2 \in OpIds :
        TwoPages(o1, o2) =>
            LET all == ops[o2].todo \o ops[o1].todo
            IN  /\ Len(ops[o1].todo) = ops[o1].target
                /\ Len(all) = Cardinality(NonDeleted(ops[o1].conv))
                /\ SeqToSet(all) = NonDeleted(ops[o1].conv)
                /\ Ascending(all)

----------------------------------------------------------------------------
(* C20: fetching history with a before cursor that names no existing       *)
(* message yields a failure result (Not-Found / InvalidInput) and returns  *)
(* no page of messages.                                                    *)
C20_UnknownCursorFails ==
    \A o \in OpIds :
        (/\ ops[o].kind = "getMessages" /\ ops[o].pc = "done"
         /\ ops[o].msg # 0 /\ ops[o].msg \notin 1..Len(messages)) =>
            /\ ops[o].status \in {400, 403, 404}
            /\ ops[o].todo = <<>>

----------------------------------------------------------------------------
(* GET /api/chat/conversations/:id (controller getConversation) *)

\* the request arrives and Conversation.findById(id).populate() is answered
GetConversationStart(userId, c) ==
    /\ ops' = Append(ops, [NewOp("getConversation", 0, userId) EXCEPT
                              !.conv = c, !.pc = "loaded",
                              !.doc = LoadConversation(c)])
    /\ UNCHANGED <<conversations, messages, sockets, onlineUsers, now, audit>>

\* 404, 403, or 200 with the conversation
GetConversationFinish(o) ==
    /\ ops[o].kind = "getConversation"
    /\ ops[o].pc = "loaded"
    /\ ops' = [ops EXCEPT
          ![o].pc = "done",
          ![o].status = IF ~ops[o].doc.found THEN 404
                        ELSE IF ~IsParticipant(ops[o].doc, ops[o].user) THEN 403
                        ELSE 200,
          ![o].result = IF ops[o].doc.found /\ IsParticipant(ops[o].doc, ops[o].user)
                        THEN ops[o].conv ELSE 0]
    /\ UNCHANGED <<conversations, messages, sockets, onlineUsers, now, audit>>

----------------------------------------------------------------------------
(* SpecInactive: the conversation of P and D holds one message and has been *)
(* deactivated in the store (isActive false); its participants connect and  *)
(* then address it, one operation after another                             *)

InitInactive ==
    /\ conversations =
          << [NewConversation("P", "D", 0) EXCEPT
                 !.isActive = FALSE, !.lastMessage = 1,
                 !.unreadCount = MapSet(@, "D", 1)] >>
    /\ messages = << [ conversation |-> 1, sender |-> "P", readBy |-> <<>>,
                       deliveredTo |-> <<>>, createdAt |-> 0,
                       isDeleted |-> FALSE ] >>
    /\ sockets = <<>>
    /\ onlineUsers = [u \in Users |-> 0]
    /\ ops = <<>>
    /\ now = 0
    /\ audit = << [ sent |-> [P |-> 0, D |-> 1], applied |-> [P |-> 0, D |-> 1] ] >>

MayStartInactive == Len(ops) < MaxInactiveOps /\ AllDone

NextInactive ==
    \/ \E u \in Pair :
          Len(sockets) < MaxSockets /\ ops = <<>> /\ ~isUserOnline(u) /\ Connect(u)
    \/ \E s \in SocketIds : ops = <<>> /\ AutoJoinJoin(s)
    \/ \E s \in SocketIds : MayStartInactive /\ JoinConversationStart(s, 1)
    \/ \E o \in OpIds : JoinConversationFinish(o)
    \/ \E s \in SocketIds : MayStartInactive /\ SendMessageStart(s, 1)
    \/ \E o \in OpIds : SendMessageCheck(o)
    \/ \E o \in OpIds : SendMessagePostSave(o)
    \/ \E o \in OpIds : SendMessageIncrement(o)
    \/ \E o \in OpIds : SendMessageBroadcast(o)
    \/ \E o \in OpIds : SendMessageDeliverSave(o)
    \/ \E o \in OpIds : SendMessageDeliverHook(o)
    \/ \E o \in OpIds : SendMessageDeliverEmit(o)
    \/ \E u \in Pair : MayStartInactive /\ MarkAsReadStart(u, 1)
    \/ \E o \in OpIds : MarkAsReadCheck(o)
    \/ \E o \in OpIds : MarkAsReadMark(o)
    \/ \E o \in OpIds : MarkAsReadHook(o)
    \/ \E o \in OpIds : MarkAsReadReset(o)
    \/ \E u \in Pair, limit \in 0..MaxLimit :
          MayStartInactive /\ GetMessagesStart(u, 1, 0, limit)
    \/ \E o \in OpIds : GetMessagesCheck(o)
    \/ \E o \in OpIds : GetMessagesFind(o)
    \/ \E u \in Pair : MayStartInactive /\ GetConversationStart(u, 1)
    \/ \E o \in OpIds : GetConversationFinish(o)

SpecInactive == InitInactive /\ [][NextInactive]_vars

----------------------------------------------------------------------------
\* conversation c exists and is deactivated
Inactive(c) == c \in 1..Len(conversations) /\ ~conversations[c].isActive

HttpKinds == {"getConversation", "getMessages", "markAsRead"}

SocketKinds == {"join_conversation", "send_message"}

(* C17: every operation that references an inactive conversation           *)
(* (join_conversation, send_message, fetch conversation, fetch messages,   *)
(* mark-conversation-read) signals Not-Found exactly as for a nonexistent  *)
(* conversation and performs no subscription, persistence or counter       *)
(* change.                                                                 *)
C17_InactiveIsNotFound ==
    \A o \in OpIds :
        (Inactive(ops[o].conv) /\ ops[o].pc = "done") =>
            /\ ops[o].kind \in HttpKinds => ops[o].status = 404
            /\ ops[o].kind \in SocketKinds =>
                  /\ \E e \in EventsOf(ops[o].sock, o) :
                        e.type = "error" /\ e.text = "Conversation not found"
                  /\ ops[o].msg = 0
                  /\ ops[o].conv \notin sockets[ops[o].sock].rooms

----------------------------------------------------------------------------
(* C23: in every reachable state an identity has a presence entry whenever *)
(* it has at least one live connection, also after the identity reconnects *)
(* (overwriting its entry) and an older connection of the same identity    *)
(* then disconnects.                                                       *)
C23_LiveConnectionHasPresence ==
    \A s \in SocketIds : sockets[s].connected => isUserOnline(sockets[s].user)

----------------------------------------------------------------------------
(* C26: in every reachable state every direct conversation has exactly two *)
(* participants and they are distinct identities; find-or-create invoked   *)
(* by an identity with its own id as the other party never creates or      *)
(* returns a conversation whose two participants are the same identity.    *)
C26_TwoDistinctParticipants ==
    \A c \in 1..Len(conversations) :
        conversations[c].conversationType = "direct" =>
            /\ Len(conversations[c].participants) = 2
            /\ conversations[c].participants[1] # conversations[c].participants[2]

----------------------------------------------------------------------------
(* SpecPresence: connections open and close over a store with two active    *)
(* conversations and a deactivated one; the query of joinUserConversations  *)
(* is answered and its continuation runs                                    *)

InitPresence ==
    /\ conversations = << NewConversation("P", "D", 0), NewConversation("A", "D", 0),
                          [NewConversation("A", "P", 0) EXCEPT !.isActive = FALSE] >>
    /\ messages = <<>>
    /\ sockets = <<>>
    /\ onlineUsers = [u \in Users |-> 0]
    /\ ops = <<>>
    /\ now = 0
    /\ audit = << NewAudit("P", "D"), NewAudit("A", "D"), NewAudit("A", "P") >>

NextPresence ==
    \/ \E u \in Users : Len(sockets) < MaxSockets /\ Connect(u)
    \/ \E s \in SocketIds : AutoJoinJoin(s)
    \/ \E s \in SocketIds : Disconnect(s)

SpecPresence ==
    /\ InitPresence /\ [][NextPresence]_vars
    /\ \A s \in 1..MaxSockets : WF_vars(s \in SocketIds /\ AutoJoinJoin(s))

----------------------------------------------------------------------------
\* this step is the connection handler of a new socket
Connects == Len(sockets') = Len(sockets) + 1

\* what the connection handler has done when it returns
C21_ConnectionStep ==
    LET n  == Len(sockets')
        u  == sockets'[n].user
        ev == Event("user_online", 0, 0, u, 0, "")
    IN  /\ onlineUsers'[u] = n
        /\ ev \notin sockets'[n].inbox
        /\ \A s \in SocketIds : sockets[s].connected => ev \in sockets'[s].inbox

\* socket s is subscribed to the rooms of the active conversations of its
\* identity and to no other
AutoSubscribed(s) ==
    sockets[s].rooms =
        { c \in 1..Len(conversations) :
            /\ conversations[c].isActive
            /\ sockets[s].user \in SeqToSet(conversations[c].participants) }

(* C21: after a successful handshake the identity is registered in the     *)
(* presence registry, user_online is emitted to every other connection and *)
(* not to the connecting one, and, provided the connection stays open and  *)
(* the store answers, the connection eventually becomes subscribed to the  *)
(* room of every active conversation of its identity and to no other       *)
(* conversation room.                                                      *)
C21_HandshakeRegistersAndSubscribes ==
    /\ [][Connects => C21_ConnectionStep]_vars
    /\ [](\A s \in SocketIds : \A c \in sockets[s].rooms :
             /\ conversations[c].isActive
             /\ sockets[s].user \in SeqToSet(conversations[c].participants))
    /\ \A s \in 1..MaxSockets :
          (s \in SocketIds) ~>
              (s \in SocketIds /\ (~sockets[s].connected \/ AutoSubscribed(s)))

\* an open connection of an identity that also has a deactivated conversation
\* is subscribed to its active one, and another open connection got user_online
C21_Witness ==
    \E s, r \in SocketIds :
        /\ s # r /\ sockets[s].connected /\ sockets[r].connected
        /\ sockets[s].ajpc = "done" /\ AutoSubscribed(s)
        /\ sockets[s].rooms # {}
        /\ AllConversationsOf(sockets[s].user) # ActiveConversationsOf(sockets[s].user)
        /\ isUserOnline(sockets[s].user)
        /\ Event("user_online", 0, 0, sockets[s].user, 0, "") \in sockets[r].inbox

----------------------------------------------------------------------------
(* The handshake: io.use(socketAuth) runs before the connection handler *)

\* an account of the User collection with isActive false
InactiveUser == "I"

\* what a client may present: no token, a token jwt.verify rejects, or a valid
\* token carrying the id of an active user, of the inactive account, of no user
Credentials ==
    { [kind |-> "none", id |-> NoUser], [kind |-> "invalid", id |-> NoUser] }
    \cup { [kind |-> "valid", id |-> u] : u \in Users \cup {InactiveUser, GhostUser} }

\* mutant: the middleware calls next() for everyone
socketAuthAcceptsAll(cred) == "ok"

\* socketAuth: "ok" stands for next(), anything else for next(new Error(...))
socketAuth(cred) ==
    IF cred.kind = "none" THEN "No token provided"
    ELSE IF cred.kind = "invalid" THEN "Invalid token"
    ELSE IF cred.id \notin Users \cup {InactiveUser} THEN "User not found"
    ELSE IF cred.id = InactiveUser THEN "User account is inactive"
    ELSE "ok"

\* a client connects: the middleware, then the connection handler or the refusal
Handshake(cred) ==
    IF socketAuth(cred) = "ok"
    THEN Connect(cred.id)
    ELSE /\ ops' = Append(ops, [NewOp("handshake", 0, NoUser) EXCEPT
                                   !.peer = cred.id, !.status = 401])
         /\ UNCHANGED <<conversations, messages, sockets, onlineUsers, now, audit>>

----------------------------------------------------------------------------
(* SpecAuth: clients present credentials; those let in join conversations *)

NextAuth ==
    \/ \E cred \in Credentials :
          /\ IF socketAuth(cred) = "ok" THEN Len(sockets) < MaxSockets
                                        ELSE Len(ops) < MaxAuthOps
          /\ Handshake(cred)
    \/ \E s \in SocketIds : AutoJoinJoin(s)
    \/ \E s \in SocketIds : Disconnect(s)
    \/ \E s \in SocketIds, c \in ConvIds :
          Len(ops) < MaxAuthOps /\ JoinConversationStart(s, c)
    \/ \E o \in OpIds : JoinConversationFinish(o)

SpecAuth == InitChat /\ [][NextAuth]_vars

----------------------------------------------------------------------------
(* C22: a connection attempt whose credential is missing or invalid, or    *)
(* whose identity does not resolve or has isActive false, is rejected at   *)
(* the handshake: it never gets a presence entry, never joins a room,      *)
(* never triggers user_online and none of its inbound events is processed. *)
C22_OnlyActiveIdentitiesConnect ==
    /\ \A s \in SocketIds : sockets[s].user \in Users
    /\ \A s \in SocketIds : \A e \in sockets[s].inbox :
          e.type = "user_online" => e.user \in Users
    /\ \A o \in OpIds :
          IF ops[o].kind = "handshake"
          THEN ops[o].status = 401 /\ ops[o].sock = 0
          ELSE ops[o].user \in Users
    /\ \A u \in DOMAIN onlineUsers : onlineUsers[u] # 0 => u \in Users

\* the inactive account and a client with an invalid token were refused while an
\* active user was let in and announced to another connection
C22_Witness ==
    \E o1, o2 \in OpIds, s, r \in SocketIds :
        /\ ops[o1].kind = "handshake" /\ ops[o1].peer = InactiveUser
        /\ ops[o2].kind = "handshake" /\ ops[o2].peer = NoUser
        /\ s # r /\ sockets[s].connected /\ sockets[r].connected
        /\ Event("user_online", 0, 0, sockets[s].user, 0, "") \in sockets[r].inbox

----------------------------------------------------------------------------
(* SpecErr: users connect, then joins and sends follow one after another,   *)
(* addressed to existing and to unknown conversations, by participants and  *)
(* by others, each of which may be cut short by a rejected store operation  *)

MayStartErr == Len(ops) < MaxErrOps /\ AllDone

NextErr ==
    \/ \E u \in Users :
          Len(sockets) < MaxSockets /\ ops = <<>> /\ ~isUserOnline(u) /\ Connect(u)
    \/ \E s \in SocketIds : ops = <<>> /\ AutoJoinJoin(s)
    \/ \E s \in SocketIds, c \in ConvIds : MayStartErr /\ JoinConversationStart(s, c)
    \/ \E o \in OpIds : JoinConversationFinish(o)
    \/ \E o \in OpIds : JoinConversationFail(o)
    \/ \E s \in SocketIds, c \in ConvIds : MayStartErr /\ SendMessageStart(s, c)
    \/ \E o \in OpIds : SendMessageCheck(o)
    \/ \E o \in OpIds : SendMessagePostSave(o)
    \/ \E o \in OpIds : SendMessageIncrement(o)
    \/ \E o \in OpIds : SendMessageBroadcast(o)
    \/ \E o \in OpIds : SendMessageDeliverSave(o)
    \/ \E o \in OpIds : SendMessageDeliverHook(o)
    \/ \E o \in OpIds : SendMessageDeliverEmit(o)
    \/ \E o \in OpIds : SendMessageFail(o)

SpecErr == InitPair /\ [][NextErr]_vars

----------------------------------------------------------------------------
\* this step ends handler o in a failure: the conversation was not found, the
\* caller is no participant, or a store operation was rejected
FailsNow(o) ==
    /\ ops[o].kind \in {"join_conversation", "send_message"}
    /\ ops[o].pc # "done" /\ ops'[o].pc = "done"
    /\ \/ ops'[o].status = 500
       \/ ops[o].pc = "loaded" /\ ~ops[o].doc.found
       \/ ops[o].pc = "loaded" /\ ops[o].user \notin SeqToSet(ops[o].doc.participants)

(* C24: a failure while handling join_conversation or send_message from    *)
(* connection X is reported as an error event to X only; no other          *)
(* connection receives any event because of it, and X stays connected,     *)
(* registered in presence, with its room subscriptions unchanged and able  *)
(* to process further events.                                              *)
C24_FailureReportedToOriginOnly ==
    [][\A o \in OpIds :
          FailsNow(o) =>
              LET x == ops[o].sock
              IN  /\ \A s \in SocketIds \ {x} : sockets'[s] = sockets[s]
                  /\ sockets'[x].connected /\ sockets'[x].rooms = sockets[x].rooms
                  /\ \E e \in sockets'[x].inbox \ sockets[x].inbox :
                        /\ e.type = "error" /\ e.op = o
                        /\ sockets'[x].inbox = sockets[x].inbox \cup {e}
                  /\ onlineUsers' = onlineUsers
                  /\ isUserOnline(sockets[x].user)']_vars

\* a join of connection X was cut short by the store while another connection
\* was open, and a send from X afterwards went through and was confirmed
C24_Witness ==
    \E j, t \in OpIds, s \in SocketIds :
        /\ ops[j].kind = "join_conversation" /\ ops[j].status = 500
        /\ Holds(ops[j].sock, j, "error")
        /\ j < t /\ ops[t].sock = ops[j].sock
        /\ ops[t].kind = "send_message" /\ ops[t].pc = "done" /\ ops[t].msg # 0
        /\ Holds(ops[t].sock, t, "message_sent")
        /\ s # ops[j].sock /\ sockets[s].connected

----------------------------------------------------------------------------
(* SpecRead: one stored message; users connect and disconnect, then         *)
(* message_read events naming the message or an unknown id are handled one  *)
(* after another, each of which may be cut short by a rejected store        *)
(* operation                                                                *)

MayStartRead == Len(ops) < MaxReadOps /\ AllDone

NextRead ==
    \/ \E u \in Users :
          Len(sockets) < MaxSockets /\ ops = <<>> /\ ~isUserOnline(u) /\ Connect(u)
    \/ \E s \in SocketIds : ops = <<>> /\ AutoJoinJoin(s)
    \/ \E s \in SocketIds : ops = <<>> /\ Disconnect(s)
    \/ \E s \in SocketIds, m \in 1..(Len(messages) + 1) :
          MayStartRead /\ MessageReadStart(s, m)
    \/ \E o \in OpIds : MessageReadMark(o)
    \/ \E o \in OpIds : MessageReadHook(o)
    \/ \E o \in OpIds : MessageReadNotify(o)
    \/ \E o \in OpIds : MessageReadFail(o)

SpecRead == InitOneMessage /\ [][NextRead]_vars

----------------------------------------------------------------------------
\* no connection gains an error event in this step
NoNewError ==
    \A s \in SocketIds :
        \A e \in sockets'[s].inbox \ sockets[s].inbox : e.type # "error"

\* this step ends handler o because the message id resolved to nothing or a
\* store operation was rejected
ReadGivesUp(o) ==
    /\ ops[o].pc # "done" /\ ops'[o].pc = "done"
    /\ ops[o].mdocs = <<>> \/ ops'[o].status = 500

(* C25: a message_read event never produces an error event and never ends  *)
(* the session; when the message id does not resolve or the store fails,   *)
(* the handler emits nothing to any connection, adds no read record and    *)
(* the connection stays usable.                                            *)
C25_MessageReadIsSilentOnFailure ==
    [][\A o \in OpIds :
          (ops[o].kind = "message_read" /\ Moves(o)) =>
              /\ NoNewError
              /\ \A s \in SocketIds :
                    /\ sockets'[s].connected = sockets[s].connected
                    /\ sockets'[s].rooms = sockets[s].rooms
              /\ onlineUsers' = onlineUsers
              /\ ReadGivesUp(o) => sockets' = sockets /\ messages' = messages]_vars

\* on one connection a message_read for the stored message was cut short by
\* the store, and the next one recorded the read and sent the receipt to the
\* sender
C25_Witness ==
    \E b, t \in OpIds :
        /\ b < t /\ ops[b].sock = ops[t].sock
        /\ sockets[ops[t].sock].connected
        /\ ops[b].kind = "message_read" /\ ops[b].status = 500 /\ ops[b].mdocs # <<>>
        /\ ops[t].kind = "message_read" /\ ops[t].pc = "done" /\ ops[t].status # 500
        /\ ops[t].mdocs # <<>>
        /\ isReadBy(messages[ops[t].msg], ops[t].user)
        /\ \E s \in SocketIds : Holds(s, t, "message_read_receipt")

----------------------------------------------------------------------------
(* SpecUnread: two conversations, P with D and A with D; users connect,     *)
(* then sends and mark-conversation-read requests follow one after another, *)
(* addressed to either conversation or to an unknown one, by participants   *)
(* and by others                                                            *)

MayStartUnread == Len(ops) < MaxUnreadOps /\ AllDone

NextUnread ==
    \/ \E u \in Users :
          Len(sockets) < MaxSockets /\ ops = <<>> /\ ~isUserOnline(u) /\ Connect(u)
    \/ \E s \in SocketIds : ops = <<>> /\ AutoJoinJoin(s)
    \/ \E s \in SocketIds, c \in ConvIds : MayStartUnread /\ SendMessageStart(s, c)
    \/ \E o \in OpIds : SendMessageCheck(o)
    \/ \E o \in OpIds : SendMessagePostSave(o)
    \/ \E o \in OpIds : SendMessageIncrement(o)
    \/ \E o \in OpIds : SendMessageBroadcast(o)
    \/ \E o \in OpIds : SendMessageDeliverSave(o)
    \/ \E o \in OpIds : SendMessageDeliverHook(o)
    \/ \E o \in OpIds : SendMessageDeliverEmit(o)
    \/ \E u \in Users, c \in ConvIds : MayStartUnread /\ MarkAsReadStart(u, c)
    \/ \E o \in OpIds : MarkAsReadCheck(o)
    \/ \E o \in OpIds : MarkAsReadMark(o)
    \/ \E o \in OpIds : MarkAsReadHook(o)
    \/ \E o \in OpIds : MarkAsReadReset(o)

SpecUnread == InitChat /\ [][NextUnread]_vars

----------------------------------------------------------------------------
(* C27: in every reachable state each conversation's unread-count map has  *)
(* keys only for identities that are participants of that conversation,    *)
(* and every value is an integer >= 0.                                     *)
C27_UnreadCountWellFormed ==
    \A c \in 1..Len(conversations) :
        /\ DOMAIN conversations[c].unreadCount \subseteq SeqToSet(conversations[c].participants)
        /\ \A k \in DOMAIN conversations[c].unreadCount :
              conversations[c].unreadCount[k] \in Nat

\* a message was sent in a conversation, so that its recipient's counter is
\* above 0, and a mark-conversation-read request of an identity outside that
\* conversation was then refused
C27_Witness ==
    \E a, d \in OpIds :
        /\ a < d
        /\ ops[a].kind = "send_message" /\ ops[a].pc = "done" /\ ops[a].msg # 0
        /\ \E k \in DOMAIN conversations[ops[a].conv].unreadCount :
              conversations[ops[a].conv].unreadCount[k] > 0
        /\ ops[d].kind = "markAsRead" /\ ops[d].status = 403
        /\ ops[d].conv = ops[a].conv

----------------------------------------------------------------------------
(* C28: in every reachable state every persisted message names an existing *)
(* conversation of which the message's sender is a participant.            *)
C28_MessageOfParticipant ==
    \A m \in 1..Len(messages) :
        /\ messages[m].conversation \in 1..Len(conversations)
        /\ messages[m].sender \in SeqToSet(conversations[messages[m].conversation].participants)

\* a participant's message was persisted, and a send of an identity outside
\* the conversation ended with the error "Not authorized"
C28_Witness ==
    \E a, d \in OpIds :
        /\ ops[a].kind = "send_message" /\ ops[a].pc = "done" /\ ops[a].msg # 0
        /\ ops[a].msg \in 1..Len(messages)
        /\ ops[d].kind = "send_message" /\ ops[d].pc = "done" /\ ops[d].msg = 0
        /\ ops[d].doc.found
        /\ ops[d].user \notin SeqToSet(conversations[ops[d].conv].participants)
        /\ Holds(ops[d].sock, d, "error")

----------------------------------------------------------------------------
(* SpecContent: users connect, then send_message events with any content of *)
(* up to MaxContentLen characters are handled, one at a time                *)

MayStartContent == Len(ops) < MaxContentOps /\ AllDone

NextContent ==
    \/ \E u \in Users :
          Len(sockets) < MaxSockets /\ ops = <<>> /\ ~isUserOnline(u) /\ Connect(u)
    \/ \E s \in SocketIds : ops = <<>> /\ AutoJoinJoin(s)
    \/ \E s \in SocketIds, content \in Contents :
          MayStartContent /\ SendMessageWith(s, 1, content)
    \/ \E o \in OpIds : SendMessageCheck(o)
    \/ \E o \in OpIds : SendMessagePostSave(o)
    \/ \E o \in OpIds : SendMessageIncrement(o)
    \/ \E o \in OpIds : SendMessageBroadcast(o)
    \/ \E o \in OpIds : SendMessageDeliverSave(o)
    \/ \E o \in OpIds : SendMessageDeliverHook(o)
    \/ \E o \in OpIds : SendMessageDeliverEmit(o)

SpecContent == InitPair /\ [][NextContent]_vars

----------------------------------------------------------------------------
\* handler o is a send_message whose content is empty or blanks only
BlankSend(o) ==
    /\ ops[o].kind = "send_message"
    /\ \A i \in 1..Len(ops[o].content) : ops[o].content[i] = " "

(* C29: a send_message of type text whose content is empty or only         *)
(* whitespace is rejected before any mutation: no message is persisted,    *)
(* the last-message pointer and all unread counters are unchanged, nothing *)
(* is broadcast, and the sender receives an error event.                   *)
C29_BlankContentRejected ==
    /\ [](\A o \in OpIds :
            BlankSend(o) =>
                /\ ops[o].msg = 0
                /\ \A s \in SocketIds :
                      \A e \in sockets[s].inbox :
                          e.op = o => e.type = "error" /\ s = ops[o].sock
                /\ ops[o].pc = "done" => Holds(ops[o].sock, o, "error"))
    /\ [][\A o \in OpIds :
            (BlankSend(o) /\ Moves(o)) =>
                /\ messages' = messages
                /\ conversations' = conversations
                /\ ops'[o].pc = "done"
                /\ \A s \in SocketIds \ {ops[o].sock} : sockets'[s] = sockets[s]]_vars

\* a participant's send of a content of blanks ended with an error while the
\* other participant's connection was in the room
C29_Witness ==
    \E b \in OpIds, r \in SocketIds :
        /\ BlankSend(b) /\ ops[b].content = <<" ", " ">> /\ ops[b].pc = "done"
        /\ ops[b].user \in SeqToSet(conversations[1].participants)
        /\ Holds(ops[b].sock, b, "error")
        /\ r # ops[b].sock /\ sockets[r].connected /\ 1 \in sockets[r].rooms

----------------------------------------------------------------------------
\* this step completes mark-conversation-read request o with status 200
MarkCompletes(o) ==
    /\ ops[o].kind = "markAsRead"
    /\ ops[o].pc # "done" /\ ops'[o].pc = "done" /\ ops'[o].status = 200

(* C30: mark-conversation-read by participant U on conversation C, run     *)
(* with no concurrent send, ends in a state where every message of C sent  *)
(* by another identity has a read record for U and U's unread counter is   *)
(* 0, while the other participant's counter and all messages' delivery     *)
(* records are unchanged.                                                  *)
C30_MarkConversationRead ==
    [][\A o \in OpIds :
          /\ MarkCompletes(o) =>
                LET U == ops[o].user
                    C == ops[o].conv
                IN  /\ \A m \in 1..Len(messages') :
                          (messages'[m].conversation = C /\ messages'[m].sender # U)
                              => \E i \in 1..Len(messages'[m].readBy) :
                                     messages'[m].readBy[i].user = U
                    /\ conversations'[C].unreadCount[U] = 0
                    /\ \A k \in SeqToSet(conversations[C].participants) \ {U} :
                          conversations'[C].unreadCount[k] = ops[o].doc.unreadCount[k]
          /\ (ops[o].kind = "markAsRead" /\ Moves(o)) =>
                /\ Len(messages') = Len(messages)
                /\ \A m \in 1..Len(messages) :
                      messages'[m].deliveredTo = messages[m].deliveredTo
                /\ \A k \in SeqToSet(conversations[ops[o].conv].participants) \ {ops[o].user} :
                      conversations'[ops[o].conv].unreadCount[k]
                          = conversations[ops[o].conv].unreadCount[k]]_vars

\* D marked the conversation read after a message of P, delivered to D, and
\* a message of D: P's message is read by D, D's counter is 0 and P's is not
C30_Witness ==
    \E o \in OpIds, m \in 1..Len(messages) :
        /\ ops[o].kind = "markAsRead" /\ ops[o].status = 200 /\ ops[o].result > 0
        /\ messages[m].conversation = ops[o].conv /\ messages[m].sender # ops[o].user
        /\ isReadBy(messages[m], ops[o].user)
        /\ isDeliveredTo(messages[m], ops[o].user)
        /\ conversations[ops[o].conv].unreadCount[ops[o].user] = 0
        /\ \E k \in SeqToSet(conversations[ops[o].conv].participants) :
              k # ops[o].user /\ conversations[ops[o].conv].unreadCount[k] > 0

----------------------------------------------------------------------------
(* SpecLeak: one conversation, P with D; users connect, then the five       *)
(* operations that name a conversation follow one after another, issued by  *)
(* the participants and by A, on the conversation and on an unknown id      *)

MayStartLeak == Len(ops) < MaxLeakOps /\ AllDone

NextLeak ==
    \/ \E u \in Users :
          Len(sockets) < MaxSockets /\ ops = <<>> /\ ~isUserOnline(u) /\ Connect(u)
    \/ \E s \in SocketIds : ops = <<>> /\ AutoJoinJoin(s)
    \/ \E s \in SocketIds, c \in ConvIds : MayStartLeak /\ JoinConversationStart(s, c)
    \/ \E o \in OpIds : JoinConversationFinish(o)
    \/ \E s \in SocketIds, c \in ConvIds : MayStartLeak /\ SendMessageStart(s, c)
    \/ \E o \in OpIds : SendMessageCheck(o)
    \/ \E o \in OpIds : SendMessagePostSave(o)
    \/ \E o \in OpIds : SendMessageIncrement(o)
    \/ \E o \in OpIds : SendMessageBroadcast(o)
    \/ \E o \in OpIds : SendMessageDeliverSave(o)
    \/ \E o \in OpIds : SendMessageDeliverHook(o)
    \/ \E o \in OpIds : SendMessageDeliverEmit(o)
    \/ \E u \in Users, c \in ConvIds : MayStartLeak /\ MarkAsReadStart(u, c)
    \/ \E o \in OpIds : MarkAsReadCheck(o)
    \/ \E o \in OpIds : MarkAsReadMark(o)
    \/ \E o \in OpIds : MarkAsReadHook(o)
    \/ \E o \in OpIds : MarkAsReadReset(o)
    \/ \E u \in Users, c \in ConvIds : MayStartLeak /\ GetMessagesStart(u, c, 0, 0)
    \/ \E o \in OpIds : GetMessagesCheck(o)
    \/ \E o \in OpIds : GetMessagesFind(o)
    \/ \E u \in Users, c \in ConvIds : MayStartLeak /\ GetConversationStart(u, c)
    \/ \E o \in OpIds : GetConversationFinish(o)

SpecLeak == InitPair /\ [][NextLeak]_vars

----------------------------------------------------------------------------
\* what the caller of the completed operation o got back: the HTTP status, and
\* the events the handler put on the caller's socket
Response(o) ==
    [ status |-> ops[o].status,
      events |-> IF ops[o].sock = 0 THEN {}
                 ELSE { <<e.type, e.text>> :
                           e \in { x \in sockets[ops[o].sock].inbox : x.op = o } } ]

(* C31: conversation existence does not leak to non-participants: for an   *)
(* identity that is not a participant, the outcome of fetch-conversation,   *)
(* fetch-messages, mark-conversation-read, join_conversation and            *)
(* send_message on the id of an existing conversation is the same as the    *)
(* outcome on an id that names no conversation.                             *)
C31_NoExistenceLeak ==
    \A o1, o2 \in OpIds :
        (/\ ops[o1].pc = "done" /\ ops[o2].pc = "done"
         /\ ops[o1].kind = ops[o2].kind /\ ops[o1].user = ops[o2].user
         /\ ops[o1].kind \in HttpKinds \cup SocketKinds
         /\ ops[o1].conv \in 1..Len(conversations)
         /\ ops[o1].user \notin SeqToSet(conversations[ops[o1].conv].participants)
         /\ ops[o2].conv \notin 1..Len(conversations))
            => Response(o1) = Response(o2)

----------------------------------------------------------------------------
(* SpecFoc: the store holds the conversation of P and D with one message    *)
(* unread by D; createConversation requests follow one after another, each  *)
(* completing before the next arrives                                       *)

MayStartFoc == Len(ops) < MaxFocOps /\ AllDone

NextFoc ==
    \/ \E u \in Users, p \in Users \cup {NoUser, GhostUser} :
          MayStartFoc /\ CreateConversationStart(u, p)
    \/ \E o \in OpIds : CreateConversationFinish(o)

SpecFoc == InitOneMessage /\ [][NextFoc]_vars

----------------------------------------------------------------------------
\* the direct conversations whose participants are the two identities a and b
Between(a, b) ==
    { c \in 1..Len(conversations) :
        conversations[c].conversationType = "direct" /\ PairOf(c) = {a, b} }

(* C32: findOrCreate is independent of argument order and leaves an         *)
(* existing conversation untouched: when a direct conversation between A    *)
(* and B exists, findOrCreate(A,B) and findOrCreate(B,A) both return that   *)
(* conversation, create nothing and leave its unread counters, last-message *)
(* pointer and participants unchanged; when none exists the created         *)
(* conversation has unread counter 0 for both A and B.                      *)
C32_FindOrCreate ==
    [][\A o \in OpIds :
          (/\ ops[o].kind = "createConversation"
           /\ ops[o].pc = "found" /\ ops'[o].pc = "done"
           /\ ops[o].user # ops[o].peer) =>
              LET a == ops[o].user
                  b == ops[o].peer
              IN IF Between(a, b) # {}
                 THEN /\ conversations' = conversations
                      /\ ops'[o].result \in Between(a, b)
                      /\ \A c \in Between(a, b) : c = ops'[o].result
                 ELSE /\ Len(conversations') = Len(conversations) + 1
                      /\ SubSeq(conversations', 1, Len(conversations)) = conversations
                      /\ ops'[o].result = Len(conversations')
                      /\ SeqToSet(conversations'[ops'[o].result].participants) = {a, b}
                      /\ conversations'[ops'[o].result].unreadCount[a] = 0
                      /\ conversations'[ops'[o].result].unreadCount[b] = 0]_vars

\* P asked for the conversation with D and D for the one with P: both got the
\* stored conversation, which still has its message pointer and D's counter
\* at 1; a request of A for D created a conversation
C32_Witness ==
    \E o1, o2, o3 \in OpIds :
        /\ ops[o1].user = "P" /\ ops[o1].peer = "D" /\ ops[o1].status = 201
        /\ ops[o2].user = "D" /\ ops[o2].peer = "P" /\ ops[o2].status = 201
        /\ ops[o1].result = 1 /\ ops[o2].result = 1
        /\ conversations[1].lastMessage = 1 /\ conversations[1].unreadCount["D"] = 1
        /\ ops[o3].user = "A" /\ ops[o3].peer = "D" /\ ops[o3].status = 201
        /\ ops[o3].result = 2 /\ Len(conversations) = 2

----------------------------------------------------------------------------
(* SpecRole: createConversation requests on an empty store, by patients,    *)
(* doctors and the admin, naming any account, no account or an unknown id,  *)
(* one request after another                                                *)

MayStartRole == Len(ops) < MaxRoleOps /\ AllDone

NextRole ==
    \/ \E u \in Accounts, p \in Accounts \cup {NoUser, GhostUser} :
          MayStartRole /\ CreateConversationStart(u, p)
    \/ \E o \in OpIds : CreateConversationFinish(o)

SpecRole == InitEmpty /\ [][NextRole]_vars

----------------------------------------------------------------------------
\* two patients, or two doctors
SamePairing(u, p) ==
    /\ u \in Accounts /\ p \in Accounts
    /\ \E r \in {"patient", "doctor"} : Role[u] = r /\ Role[p] = r

\* request o asked for no conversation at all
Answerless(o) ==
    /\ ops[o].pc = "done" /\ ops[o].result = 0 /\ ops[o].target = 0
    /\ \A c \in 1..Len(conversations) :
          conversations[c].participants # <<ops[o].user, ops[o].peer>>

(* C33: createConversation enforces the role pairing before any lookup or  *)
(* creation: a patient requesting a conversation with a patient, or a      *)
(* doctor with a doctor, gets a Forbidden result and no conversation is    *)
(* created or returned; a request without participantId or naming a        *)
(* nonexistent user fails likewise without creating a conversation.        *)
C33_RolePairingEnforced ==
    /\ \A o \in OpIds :
          ops[o].kind = "createConversation" =>
              /\ SamePairing(ops[o].user, ops[o].peer) =>
                    ops[o].status = 403 /\ Answerless(o)
              /\ ops[o].peer = NoUser => ops[o].status = 400 /\ Answerless(o)
              /\ ops[o].peer = GhostUser => ops[o].status = 404 /\ Answerless(o)
    /\ \A c \in 1..Len(conversations) :
          /\ SeqToSet(conversations[c].participants) \subseteq Accounts
          /\ ~SamePairing(conversations[c].participants[1],
                          conversations[c].participants[2])

\* patient P was refused a conversation with patient Q, and then got one with
\* doctor E
C33_Witness ==
    \E o1, o2 \in OpIds :
        /\ o1 < o2
        /\ ops[o1].user = "P" /\ ops[o1].peer = "Q" /\ ops[o1].status = 403
        /\ ops[o2].user = "P" /\ ops[o2].peer = "E" /\ ops[o2].status = 201
        /\ ops[o2].result = 1 /\ Len(conversations) = 1

----------------------------------------------------------------------------
(* SpecPointer: the participants of one conversation connect, then sends,   *)
(* message_read events and mark-conversation-read requests follow, each     *)
(* handler started only when the previous has completed                     *)

MayStartPointer == Len(ops) < MaxPointerOps /\ AllDone

NextPointer ==
    \/ \E u \in Pair :
          Len(sockets) < MaxSockets /\ ops = <<>> /\ ~isUserOnline(u) /\ Connect(u)
    \/ \E s \in SocketIds : ops = <<>> /\ AutoJoinJoin(s)
    \/ \E s \in SocketIds : MayStartPointer /\ SendMessageStart(s, 1)
    \/ \E o \in OpIds : SendMessageCheck(o)
    \/ \E o \in OpIds : SendMessagePostSave(o)
    \/ \E o \in OpIds : SendMessageIncrement(o)
    \/ \E o \in OpIds : SendMessageBroadcast(o)
    \/ \E o \in OpIds : SendMessageDeliverSave(o)
    \/ \E o \in OpIds : SendMessageDeliverHook(o)
    \/ \E o \in OpIds : SendMessageDeliverEmit(o)
    \/ \E s \in SocketIds, m \in 1..Len(messages) :
          MayStartPointer /\ MessageReadStart(s, m)
    \/ \E o \in OpIds : MessageReadMark(o)
    \/ \E o \in OpIds : MessageReadHook(o)
    \/ \E o \in OpIds : MessageReadNotify(o)
    \/ \E u \in Pair : MayStartPointer /\ MarkAsReadStart(u, 1)
    \/ \E o \in OpIds : MarkAsReadCheck(o)
    \/ \E o \in OpIds : MarkAsReadMark(o)
    \/ \E o \in OpIds : MarkAsReadHook(o)
    \/ \E o \in OpIds : MarkAsReadReset(o)

SpecPointer == InitPair /\ [][NextPointer]_vars

----------------------------------------------------------------------------
\* handler o is marking a message read or delivered: a message_read, a
\* mark-conversation-read, or the delivery loop of a send
Marking(o) ==
    \/ ops[o].kind \in {"message_read", "markAsRead"}
    \/ ops[o].kind = "send_message" /\ ops[o].pc \in {"deliver_save", "deliver_hook"}

(* C34: marking a message read or delivered leaves the owning               *)
(* conversation's last-message pointer and last-message timestamp           *)
(* unchanged: after m1 then m2 are sent, a later message_read,              *)
(* mark-conversation-read or delivery marking of m1 does not move the       *)
(* pointer away from m2.                                                    *)
C34_MarkingKeepsLastMessage ==
    [][\A o \in OpIds :
          (Marking(o) /\ Moves(o)) =>
              \A c \in 1..Len(conversations) :
                  /\ conversations'[c].lastMessage = conversations[c].lastMessage
                  /\ conversations'[c].lastMessageAt = conversations[c].lastMessageAt]_vars

----------------------------------------------------------------------------
(* SpecLate: an empty store; P and D connect and complete the handshake,    *)
(* then createConversation requests, join_conversation events and sends     *)
(* follow one after another                                                 *)

\* a handler starts when the previous one has completed and every connection
\* has joined the rooms found at its handshake
MayStartLate ==
    /\ Len(ops) < MaxLateOps /\ AllDone
    /\ \A s \in SocketIds : sockets[s].ajpc = "done"

NextLate ==
    \/ \E u \in Pair :
          Len(sockets) < MaxSockets /\ ops = <<>> /\ ~isUserOnline(u) /\ Connect(u)
    \/ \E s \in SocketIds : ops = <<>> /\ AutoJoinJoin(s)
    \/ \E u \in Pair, p \in Pair : MayStartLate /\ CreateConversationStart(u, p)
    \/ \E o \in OpIds : CreateConversationFinish(o)
    \/ \E s \in SocketIds, c \in 1..Len(conversations) :
          MayStartLate /\ JoinConversationStart(s, c)
    \/ \E o \in OpIds : JoinConversationFinish(o)
    \/ \E s \in SocketIds, c \in 1..Len(conversations) :
          MayStartLate /\ SendMessageStart(s, c)
    \/ \E o \in OpIds : SendMessageCheck(o)
    \/ \E o \in OpIds : SendMessagePostSave(o)
    \/ \E o \in OpIds : SendMessageIncrement(o)
    \/ \E o \in OpIds : SendMessageBroadcast(o)
    \/ \E o \in OpIds : SendMessageDeliverSave(o)
    \/ \E o \in OpIds : SendMessageDeliverHook(o)
    \/ \E o \in OpIds : SendMessageDeliverEmit(o)

SpecLate == InitEmpty /\ [][NextLate]_vars

----------------------------------------------------------------------------
(* C35: every message sent by a participant in conversation C is delivered  *)
(* as a new_message event to the connection of each other participant of C  *)
(* that is online at that time, including when C was created after that     *)
(* participant's connection had completed its handshake.                    *)
C35_NewMessageReachesOnlineParticipants ==
    [][\A o \in OpIds :
          (/\ ops[o].kind = "send_message"
           /\ ops[o].pc = "broadcast" /\ ops'[o].pc # "broadcast"
           /\ ops'[o].status # 500) =>
              \A s \in SocketIds :
                  (/\ sockets[s].connected
                   /\ sockets[s].user # ops[o].user
                   /\ sockets[s].user \in SeqToSet(conversations[ops[o].conv].participants))
                      => \E e \in sockets'[s].inbox :
                             e.type = "new_message" /\ e.op = o]_vars

----------------------------------------------------------------------------
(* C36: in every reachable state each presence-registry entry maps an       *)
(* identity to a connection handle that is currently open and belongs to    *)
(* that identity; the registry never retains the handle of a closed         *)
(* connection or of a connection of another identity.                       *)
C36_PresenceEntryIsLive ==
    \A u \in Users :
        onlineUsers[u] # 0 =>
            /\ onlineUsers[u] \in SocketIds
            /\ sockets[onlineUsers[u]].connected
            /\ sockets[onlineUsers[u]].user = u

\* an identity reconnected after its first connection had closed: its entry
\* names the second connection while the closed one is still known
C36_Witness ==
    \E s1, s2 \in SocketIds :
        /\ s1 < s2 /\ sockets[s1].user = sockets[s2].user
        /\ ~sockets[s1].connected /\ sockets[s2].connected
        /\ onlineUsers[sockets[s2].user] = s2

----------------------------------------------------------------------------
(* C37: a user_offline event for identity U is broadcast only when U has no *)
(* remaining live connection: between a user_offline for U and the next     *)
(* user_online for U, no connection of U is open.                           *)
C37_OfflineMeansNoConnection ==
    [][\A r \in SocketIds :
          \A e \in sockets'[r].inbox \ sockets[r].inbox :
              e.type = "user_offline" =>
                  \A s \in SocketIds :
                      ~(sockets'[s].connected /\ sockets'[s].user = e.user)]_vars

----------------------------------------------------------------------------
\* the terminal answers of send o on its own connection
Answers(o) ==
    { e \in sockets[ops[o].sock].inbox :
        e.op = o /\ e.type \in {"message_sent", "error"} }

(* C38: each send_message event gets exactly one terminal answer on the     *)
(* originating connection: either one message_sent or one error, never both *)
(* and never neither, including when a store failure occurs in the          *)
(* delivery-marking step after message_sent was emitted.                    *)
C38_ExactlyOneAnswer ==
    \A o \in OpIds :
        (ops[o].kind = "send_message" /\ ops[o].pc = "done") =>
            Cardinality(Answers(o)) = 1

====
